---- MODULE Spec2Model ----
(***************************************************************************)
(* Goa land-record tooling: the multi-line CSV record reassembler          *)
(* (clean_multiline_csv), the 'Owners Raw' field extractor                 *)
(* (parse_owners_raw_field) and the per-row augmentation of                *)
(* load_and_validate_data, of data/amche-plot-geocoder/analyze_plot_info.py *)
(*                                                                         *)
(* Text is modelled character by character: a string is a sequence of      *)
(* one-character strings, so that counting, splitting, stripping, joining  *)
(* and pattern matching are computed the way the code computes them.       *)
(***************************************************************************)
EXTENDS Integers, Sequences, FiniteSets, TLC

VARIABLES
    \* ---- clean_multiline_csv
    file_path,            \* the argument, a string
    fs,                   \* the file system: path -> File(content) or NoFile
    file_encoding,        \* what the bytes of the input file decode as
    pc,                   \* position in clean_multiline_csv
    lines,                \* content.split('\n')
    idx,                  \* number of lines the for loop has consumed
    in_multiline_field,
    multiline_content,
    output_lines,
    temp_file,
    \* ---- parse_owners_raw_field
    owners_raw_text,      \* the argument, any Python value
    xpc,                  \* position in parse_owners_raw_field
    result,               \* the returned dict
    \* ---- load_and_validate_data
    lpc,                  \* position in load_and_validate_data
    columns,              \* the header of the cleaned file
    rows,                 \* the records of the cleaned file, in order
    df,                   \* the DataFrame: its columns and its rows
    load_result,          \* what load_and_validate_data returned
    \* ---- get_valid_url (lgd-code-csv-lookup/1_filter_lgd_by_state.py)
    start_date,           \* the argument base_date, as passed
    base_date,            \* the local base_date, stepped back by the loop
    attempt,              \* the loop variable i of range(7)
    probes,               \* the HEAD requests made so far, in order
    upc,                  \* position in get_valid_url
    url_result,           \* what get_valid_url returned
    \* ---- download_and_process_data
    download_dir,         \* the names of the files in downloads/
    dpc,                  \* position in download_and_process_data
    date_string,
    zip_path,
    dl_result             \* what download_and_process_data returned

vars == <<file_path, fs, file_encoding, pc, lines, idx, in_multiline_field, multiline_content,
          output_lines, temp_file, owners_raw_text, xpc, result,
          lpc, columns, rows, df, load_result,
          start_date, base_date, attempt, probes, upc, url_result,
          download_dir, dpc, date_string, zip_path, dl_result>>

reasmVars == <<file_path, fs, pc, lines, idx, in_multiline_field,
               multiline_content, output_lines, temp_file>>
extrVars == <<owners_raw_text, xpc, result>>
loadVars == <<lpc, columns, rows, df, load_result>>
urlVars == <<start_date, base_date, attempt, probes, upc, url_result>>
dlVars == <<download_dir, dpc, date_string, zip_path, dl_result>>

(***************************************************************************)
(* Bounds                                                                  *)
(***************************************************************************)
\* longest file content, in characters
MaxContent == 5

(***************************************************************************)
(* Strings                                                                 *)
(***************************************************************************)
DQ == "\""
NL == "\n"
SP == " "

\* "abc" as <<"a","b","c">> is written out literally where needed.
\* a path with no file behind it
NoFile == [exists |-> FALSE, content |-> <<>>]
File(c) == [exists |-> TRUE, content |-> c]

\* the characters str.strip() and the regex class \s remove
Whitespace == {" ", "\n", "\t", "\r"}

\* the least and the greatest element of a non-empty set of integers
Min(S) == CHOOSE x \in S : \A y \in S : x <= y
Max(S) == CHOOSE x \in S : \A y \in S : y <= x
\* the least element, or 0 for the empty set
MinOrZero(S) == IF S = {} THEN 0 ELSE Min(S)

RECURSIVE CountFrom(_, _, _)
\* the occurrences of the character ch in s from index p on
CountFrom(s, ch, p) ==
    LET at == {k \in p..Len(s) : s[k] = ch}
    IN IF at = {} THEN 0 ELSE 1 + CountFrom(s, ch, Min(at) + 1)

\* str.count(ch) for a one-character ch
Count(s, ch) == CountFrom(s, ch, 1)

\* the index after the longest run of characters of cs that starts at p
SkipClass(s, p, cs) ==
    CHOOSE q \in p..(Len(s) + 1) :
        /\ q = Len(s) + 1 \/ s[q] \notin cs
        /\ \A m \in p..(q - 1) : s[m] \in cs

\* the index before the longest run of characters of cs that ends at p
SkipClassBack(s, p, cs) ==
    CHOOSE q \in 0..p :
        /\ q = 0 \/ s[q] \notin cs
        /\ \A m \in (q + 1)..p : s[m] \in cs

\* str.lstrip(), str.rstrip()
LStrip(s) == SubSeq(s, SkipClass(s, 1, Whitespace), Len(s))
RStrip(s) == SubSeq(s, 1, SkipClassBack(s, Len(s), Whitespace))

\* str.strip()
Strip(s) == RStrip(LStrip(s))

RECURSIVE SplitOn(_, _)
\* str.split(ch) for a one-character separator: always at least one piece
SplitOn(s, ch) ==
    LET at == {k \in 1..Len(s) : s[k] = ch}
    IN IF at = {} THEN <<s>>
       ELSE <<SubSeq(s, 1, Min(at) - 1)>>
            \o SplitOn(SubSeq(s, Min(at) + 1, Len(s)), ch)

RECURSIVE Join(_, _)
\* sep.join(parts)
Join(sep, parts) ==
    IF parts = <<>> THEN <<>>
    ELSE IF Len(parts) = 1 THEN parts[1]
    ELSE parts[1] \o sep \o Join(sep, Tail(parts))

\* whether s has the string pat at index k (1-based)
HasAt(s, k, pat) ==
    /\ k >= 1
    /\ k + Len(pat) - 1 <= Len(s)
    /\ SubSeq(s, k, k + Len(pat) - 1) = pat

RECURSIVE ReplaceFrom(_, _, _, _)
\* str.replace from index p on: every non-overlapping occurrence of old,
\* left to right
ReplaceFrom(s, old, new, p) ==
    LET at == {k \in p..Len(s) : HasAt(s, k, old)}
    IN IF at = {} THEN SubSeq(s, p, Len(s))
       ELSE SubSeq(s, p, Min(at) - 1) \o new
            \o ReplaceFrom(s, old, new, Min(at) + Len(old))

\* str.replace(old, new)
Replace(s, old, new) == ReplaceFrom(s, old, new, 1)

(***************************************************************************)
(* clean_multiline_csv                                                     *)
(***************************************************************************)

\* file_path.replace('.csv', '_cleaned.csv')
TempFileOf(path) ==
    Replace(path, <<".", "c", "s", "v">>,
            <<"_", "c", "l", "e", "a", "n", "e", "d", ".", "c", "s", "v">>)

\* the paths the callers pass
InputPaths ==
    { <<"p", ".", "c", "s", "v">>,
      <<"p", ".", "t", "x", "t">>,
      <<"p">> }

Paths == InputPaths \cup { TempFileOf(p) : p \in InputPaths }

ContentChars == {"a", DQ, SP, NL}

Contents == UNION { [1..n -> ContentChars] : n \in 0..MaxContent }

RECURSIVE WriteLines(_)
\* for line in output_lines: f.write(line + '\n')
WriteLines(ls) ==
    IF ls = <<>> THEN <<>>
    ELSE Head(ls) \o <<NL>> \o WriteLines(Tail(ls))

ExtrIdle ==
    /\ owners_raw_text = [kind |-> "None"]
    /\ xpc = "idle"
    /\ result = [kind |-> "none"]

LoadIdle ==
    /\ lpc = "idle"
    /\ columns = {}
    /\ rows = <<>>
    /\ df = [columns |-> {}, rows |-> <<>>]
    /\ load_result = [kind |-> "none"]

DlIdle ==
    /\ download_dir = {}
    /\ dpc = "idle"
    /\ date_string = <<>>
    /\ zip_path = <<>>
    /\ dl_result = [kind |-> "none"]

UrlIdle ==
    /\ start_date = [y |-> 0, m |-> 0, d |-> 0]
    /\ base_date = start_date
    /\ attempt = 0
    /\ probes = <<>>
    /\ upc = "idle"
    /\ url_result = [kind |-> "none"]

\* the encodings of the input file: valid UTF-8, or bytes that decode as
\* Latin-1 only
Encodings == {"utf-8", "latin-1"}

\* the text of a file that is not valid UTF-8, as Latin-1 reads it: "0xE9"
\* stands for the one character of the byte E9
Latin1Content == <<"a", "0xE9">>

Init ==
    /\ file_path \in InputPaths
    /\ file_encoding \in Encodings
    /\ \E c \in (IF file_encoding = "utf-8" THEN Contents ELSE {Latin1Content}) :
           fs = [p \in Paths |-> IF p = file_path THEN File(c) ELSE NoFile]
    /\ pc = "start"
    /\ lines = <<>>
    /\ idx = 0
    /\ in_multiline_field = FALSE
    /\ multiline_content = <<>>
    /\ output_lines = <<>>
    /\ temp_file = <<>>
    /\ ExtrIdle
    /\ LoadIdle
    /\ UrlIdle
    /\ DlIdle

\* lines 46-53: read the file, split it, initialise the loop state
ReadFile ==
    /\ pc = "start"
    /\ fs[file_path].exists
    /\ file_encoding = "utf-8"
    /\ lines' = SplitOn(fs[file_path].content, NL)
    /\ idx' = 0
    /\ output_lines' = <<>>
    /\ in_multiline_field' = FALSE
    /\ multiline_content' = <<>>
    /\ pc' = "loop"
    /\ UNCHANGED <<file_path, fs, temp_file>>
    /\ UNCHANGED <<extrVars, loadVars, file_encoding, urlVars, dlVars>>

\* lines 46-47: f.read() raises UnicodeDecodeError
ReadFileDecodeError ==
    /\ pc = "start"
    /\ fs[file_path].exists
    /\ file_encoding # "utf-8"
    /\ pc' = "raised"
    /\ UNCHANGED <<file_path, fs, lines, idx, in_multiline_field,
                   multiline_content, output_lines, temp_file>>
    /\ UNCHANGED <<extrVars, loadVars, file_encoding, urlVars, dlVars>>

\* the line the for loop is about to consume
HasLine == pc = "loop" /\ idx < Len(lines)
Line == lines[idx + 1]

\* lines 56-61: outside, odd quote count: the line opens a multi-line field
LineOutsideOpen ==
    /\ HasLine
    /\ ~in_multiline_field
    /\ Count(Line, DQ) % 2 = 1
    /\ in_multiline_field' = TRUE
    /\ multiline_content' = <<Line>>
    /\ idx' = idx + 1
    /\ UNCHANGED <<file_path, fs, pc, lines, output_lines, temp_file>>
    /\ UNCHANGED <<extrVars, loadVars, file_encoding, urlVars, dlVars>>

\* an emit that takes the line whatever its quote count
LineOutsideEmitAnyParity ==
    /\ HasLine
    /\ ~in_multiline_field
    /\ Strip(Line) # <<>>
    /\ output_lines' = Append(output_lines, Line)
    /\ idx' = idx + 1
    /\ UNCHANGED <<file_path, fs, pc, lines, in_multiline_field,
                   multiline_content, temp_file>>
    /\ UNCHANGED <<extrVars, loadVars, file_encoding, urlVars, dlVars>>

\* an emit that trims the line it emits
LineOutsideEmitStripped ==
    /\ HasLine
    /\ ~in_multiline_field
    /\ Count(Line, DQ) % 2 # 1
    /\ Strip(Line) # <<>>
    /\ output_lines' = Append(output_lines, Strip(Line))
    /\ idx' = idx + 1
    /\ UNCHANGED <<file_path, fs, pc, lines, in_multiline_field,
                   multiline_content, temp_file>>
    /\ UNCHANGED <<extrVars, loadVars, file_encoding, urlVars, dlVars>>

\* lines 62-65: outside, even quote count, not blank: emitted as it is
LineOutsideEmit ==
    /\ HasLine
    /\ ~in_multiline_field
    /\ Count(Line, DQ) % 2 # 1
    /\ Strip(Line) # <<>>
    /\ output_lines' = Append(output_lines, Line)
    /\ idx' = idx + 1
    /\ UNCHANGED <<file_path, fs, pc, lines, in_multiline_field,
                   multiline_content, temp_file>>
    /\ UNCHANGED <<extrVars, loadVars, file_encoding, urlVars, dlVars>>

\* lines 62-64: outside, even quote count, blank: skipped
LineOutsideBlank ==
    /\ HasLine
    /\ ~in_multiline_field
    /\ Count(Line, DQ) % 2 # 1
    /\ Strip(Line) = <<>>
    /\ idx' = idx + 1
    /\ UNCHANGED <<file_path, fs, pc, lines, in_multiline_field,
                   multiline_content, output_lines, temp_file>>
    /\ UNCHANGED <<extrVars, loadVars, file_encoding, urlVars, dlVars>>

\* an even-quote line that ends the field it is accumulated into
LineInsideContinueCloses ==
    /\ HasLine
    /\ in_multiline_field
    /\ Count(Line, DQ) % 2 # 1
    /\ in_multiline_field' = FALSE
    /\ output_lines' =
           Append(output_lines, Join(<<SP>>, Append(multiline_content, Line)))
    /\ multiline_content' = <<>>
    /\ idx' = idx + 1
    /\ UNCHANGED <<file_path, fs, pc, lines, temp_file>>
    /\ UNCHANGED <<extrVars, loadVars, file_encoding, urlVars, dlVars>>

\* lines 66-70: inside, even quote count: the line is accumulated
LineInsideContinue ==
    /\ HasLine
    /\ in_multiline_field
    /\ Count(Line, DQ) % 2 # 1
    /\ multiline_content' = Append(multiline_content, Line)
    /\ idx' = idx + 1
    /\ UNCHANGED <<file_path, fs, pc, lines, in_multiline_field,
                   output_lines, temp_file>>
    /\ UNCHANGED <<extrVars, loadVars, file_encoding, urlVars, dlVars>>

\* a close that forgets the separator
LineInsideCloseNoSeparator ==
    /\ HasLine
    /\ in_multiline_field
    /\ Count(Line, DQ) % 2 = 1
    /\ in_multiline_field' = FALSE
    /\ output_lines' =
           Append(output_lines, Join(<<>>, Append(multiline_content, Line)))
    /\ multiline_content' = <<>>
    /\ idx' = idx + 1
    /\ UNCHANGED <<file_path, fs, pc, lines, temp_file>>
    /\ UNCHANGED <<extrVars, loadVars, file_encoding, urlVars, dlVars>>

\* lines 66-76: inside, odd quote count: the line closes the field
LineInsideClose ==
    /\ HasLine
    /\ in_multiline_field
    /\ Count(Line, DQ) % 2 = 1
    /\ in_multiline_field' = FALSE
    /\ output_lines' =
           Append(output_lines, Join(<<SP>>, Append(multiline_content, Line)))
    /\ multiline_content' = <<>>
    /\ idx' = idx + 1
    /\ UNCHANGED <<file_path, fs, pc, lines, temp_file>>
    /\ UNCHANGED <<extrVars, loadVars, file_encoding, urlVars, dlVars>>

\* a write that first flushes the accumulator of an unterminated field
WriteFileWithFlush ==
    /\ pc = "loop"
    /\ idx = Len(lines)
    /\ temp_file' = TempFileOf(file_path)
    /\ fs' = [fs EXCEPT ![TempFileOf(file_path)] =
                 File(WriteLines(IF in_multiline_field
                                 THEN Append(output_lines,
                                             Join(<<SP>>, multiline_content))
                                 ELSE output_lines))]
    /\ pc' = "done"
    /\ UNCHANGED <<file_path, lines, idx, in_multiline_field,
                   multiline_content, output_lines>>
    /\ UNCHANGED <<extrVars, loadVars, file_encoding, urlVars, dlVars>>

\* lines 78-84: the loop is over; write the cleaned file and return its path
WriteFile ==
    /\ pc = "loop"
    /\ idx = Len(lines)
    /\ temp_file' = TempFileOf(file_path)
    /\ fs' = [fs EXCEPT ![TempFileOf(file_path)] = File(WriteLines(output_lines))]
    /\ pc' = "done"
    /\ UNCHANGED <<file_path, lines, idx, in_multiline_field,
                   multiline_content, output_lines>>
    /\ UNCHANGED <<extrVars, loadVars, file_encoding, urlVars, dlVars>>

(***************************************************************************)
(* Properties of clean_multiline_csv                                       *)
(***************************************************************************)
\* the number of double-quote characters of a line
NumQuotes(l) == Cardinality({j \in 1..Len(l) : l[j] = DQ})
OddQuotes(l) == NumQuotes(l) % 2 = 1
\* empty or whitespace-only
IsBlank(l) == \A j \in 1..Len(l) : l[j] \in Whitespace

RECURSIVE StartOf(_, _)
\* where part k starts in the single-space join of parts
StartOf(parts, k) ==
    IF k = 1 THEN 1 ELSE StartOf(parts, k - 1) + Len(parts[k - 1]) + 1

\* e is the parts, in order, with exactly one space between neighbours
IsSpaceJoined(e, parts) ==
    /\ Len(parts) >= 1
    /\ Len(e) = StartOf(parts, Len(parts)) + Len(parts[Len(parts)]) - 1
    /\ \A k \in 1..Len(parts) :
           /\ SubSeq(e, StartOf(parts, k),
                     StartOf(parts, k) + Len(parts[k]) - 1) = parts[k]
           /\ k > 1 => e[StartOf(parts, k) - 1] = SP

\* C1: every logical line the reassembler emits holds an even number of
\* double-quote characters, whatever the physical lines are.
C1_EmittedLinesBalanced ==
    \A k \in 1..Len(output_lines) : NumQuotes(output_lines[k]) % 2 = 0

\* a merged line with two quotes has been emitted from two odd-quote lines
C1_Witness ==
    /\ pc = "done"
    /\ Len(lines) >= 2
    /\ OddQuotes(lines[1])
    /\ OddQuotes(lines[2])
    /\ Len(output_lines) >= 1
    /\ NumQuotes(output_lines[1]) = 2

\* the accumulator is the physical lines of the open group, in order: an
\* odd-quote opening line and then even-quote lines only
C2_GroupInv ==
    in_multiline_field =>
        LET n == Len(multiline_content)
            s == idx - n + 1
        IN /\ n >= 1
           /\ s >= 1
           /\ multiline_content = SubSeq(lines, s, idx)
           /\ OddQuotes(lines[s])
           /\ \A k \in (s + 1)..idx : ~OddQuotes(lines[k])

C2_Step ==
    /\ (HasLine /\ ~in_multiline_field /\ OddQuotes(Line)) =>
           /\ in_multiline_field'
           /\ multiline_content' = <<Line>>
           /\ output_lines' = output_lines
    /\ (HasLine /\ in_multiline_field /\ ~OddQuotes(Line)) =>
           /\ in_multiline_field'
           /\ output_lines' = output_lines
    /\ (HasLine /\ in_multiline_field /\ OddQuotes(Line)) =>
           /\ Len(output_lines') = Len(output_lines) + 1
           /\ SubSeq(output_lines', 1, Len(output_lines)) = output_lines
           /\ IsSpaceJoined(output_lines'[Len(output_lines')],
                            SubSeq(lines, idx - Len(multiline_content) + 1,
                                   idx + 1))
           /\ multiline_content' = <<>>
           /\ ~in_multiline_field'

\* C2: an odd-quote line read outside, then zero or more even-quote lines,
\* then an odd-quote line: nothing is emitted before the closing line, the
\* closing line emits exactly one logical line, the group's physical lines in
\* order joined by single spaces, and leaves the accumulator empty and the
\* state outside.
C2_GroupMergedIntoOneLine == []C2_GroupInv /\ [][C2_Step]_vars

\* a three-line group (odd, even, odd) has been closed into one line
C2_Witness ==
    /\ pc = "loop"
    /\ idx = 3
    /\ OddQuotes(lines[1])
    /\ ~OddQuotes(lines[2])
    /\ lines[2] # <<>>
    /\ OddQuotes(lines[3])
    /\ Len(output_lines) = 1
    /\ ~in_multiline_field
    /\ multiline_content = <<>>

C3_Step ==
    (HasLine /\ ~in_multiline_field /\ ~OddQuotes(Line)) =>
        /\ output_lines' = IF IsBlank(Line) THEN output_lines
                           ELSE Append(output_lines, Line)
        /\ ~in_multiline_field'
        /\ multiline_content' = multiline_content

\* C3: an even-quote line read outside a quoted field is emitted at once as
\* its own logical line, text unchanged, unless it is blank; a blank line is
\* skipped.
C3_EvenLinePassesThrough == [][C3_Step]_vars

\* " a" was emitted with its leading space, the whitespace-only line skipped
C3_Witness ==
    /\ pc = "done"
    /\ lines = << <<SP, "a">>, <<SP>> >>
    /\ output_lines = << <<SP, "a">> >>

C4_AtEnd ==
    (pc = "done" /\ in_multiline_field) =>
        /\ multiline_content # <<>>
        /\ fs[temp_file].exists
        /\ NumQuotes(fs[temp_file].content) % 2 = 0
        /\ Cardinality({j \in 1..Len(fs[temp_file].content) :
                            fs[temp_file].content[j] = NL}) = Len(output_lines)
        /\ SplitOn(fs[temp_file].content, NL) = Append(output_lines, <<>>)

C4_Step ==
    /\ (in_multiline_field /\ in_multiline_field') =>
           output_lines' = output_lines
    /\ pc' = "done" => output_lines' = output_lines

\* C4: when the input ends inside a quoted field there is no final flush:
\* the written file holds exactly the logical lines completed before the
\* unterminated field was opened, and the accumulated lines stay unwritten.
C4_TrailingPartialRecordDropped == []C4_AtEnd /\ [][C4_Step]_vars

\* one line was completed, then a field was opened and never closed
C4_Witness ==
    /\ pc = "done"
    /\ in_multiline_field
    /\ Len(output_lines) = 1
    /\ Len(multiline_content) = 2

\* C5: the input file is left as it was (its content is the '\n'-join of the
\* lines read from it) and the repaired lines go to a different file.
C5_InputNotMutated ==
    pc = "done" =>
        /\ temp_file # file_path
        /\ fs[file_path] = File(Join(<<NL>>, lines))


Next ==
    \/ ReadFile
    \/ ReadFileDecodeError
    \/ LineOutsideOpen
    \/ LineOutsideEmit
    \/ LineOutsideBlank
    \/ LineInsideContinue
    \/ LineInsideClose
    \/ WriteFile

Spec == Init /\ [][Next]_vars

(***************************************************************************)
(* parse_owners_raw_field: pattern matching                                *)
(*                                                                         *)
(* A pattern is modelled by an operator that, given the text s and a start *)
(* index p, returns the index just after the match, or 0 for no match.     *)
(***************************************************************************)
UpperToLower ==
    ("A" :> "a") @@
    ("B" :> "b") @@
    ("C" :> "c") @@
    ("D" :> "d") @@
    ("E" :> "e") @@
    ("F" :> "f") @@
    ("G" :> "g") @@
    ("H" :> "h") @@
    ("I" :> "i") @@
    ("J" :> "j") @@
    ("K" :> "k") @@
    ("L" :> "l") @@
    ("M" :> "m") @@
    ("N" :> "n") @@
    ("O" :> "o") @@
    ("P" :> "p") @@
    ("Q" :> "q") @@
    ("R" :> "r") @@
    ("S" :> "s") @@
    ("T" :> "t") @@
    ("U" :> "u") @@
    ("V" :> "v") @@
    ("W" :> "w") @@
    ("X" :> "x") @@
    ("Y" :> "y") @@
    ("Z" :> "z")

\* str.lower() of one character; re.IGNORECASE compares through it
LowerCh(c) == IF c \in DOMAIN UpperToLower THEN UpperToLower[c] ELSE c

\* str.lower()
Lower(s) == [k \in 1..Len(s) |-> LowerCh(s[k])]

Digits == {"0", "1", "2", "3", "4", "5", "6", "7", "8", "9"}

\* a literal of a pattern at index p: the index after it, or 0
Lit(s, p, pat) ==
    IF /\ p >= 1
       /\ p + Len(pat) - 1 <= Len(s)
       /\ \A k \in 1..Len(pat) : s[p + k - 1] = pat[k]
    THEN p + Len(pat) ELSE 0

\* the same under re.IGNORECASE (pat is written in lower case)
LitI(s, p, pat) ==
    IF /\ p >= 1
       /\ p + Len(pat) - 1 <= Len(s)
       /\ \A k \in 1..Len(pat) : LowerCh(s[p + k - 1]) = pat[k]
    THEN p + Len(pat) ELSE 0

\* \s* (greedy) from p: the index after the whitespace run
SkipWs(s, p) == SkipClass(s, p, Whitespace)

\* ':' at p: the index after it, or 0 (also when p is 0)
Colon(s, p) == IF p >= 1 /\ p <= Len(s) /\ s[p] = ":" THEN p + 1 ELSE 0

\* \s+ from p: the index after the run, or 0 (also when p is 0)
Ws1(s, p) == IF p >= 1 /\ SkipWs(s, p) > p THEN SkipWs(s, p) ELSE 0

\* a step of a pattern that follows a part that may have failed
Then(q, r) == IF q = 0 THEN 0 ELSE r

\* the literal words of the patterns, in lower case (lines 122-196)
Labels ==
    [occupants_names |-> <<"o", "c", "c", "u", "p", "a", "n", "t", "s", " ", "n", "a", "m", "e", "s">>,
     tenants |-> <<"t", "e", "n", "a", "n", "t", "s">>,
     names |-> <<"n", "a", "m", "e", "s">>,
     total_area |-> <<"t", "o", "t", "a", "l", " ", "a", "r", "e", "a">>,
     dash7 |-> <<"-", "-", "-", "-", "-", "-", "-">>,
     dash9 |-> <<"-", "-", "-", "-", "-", "-", "-", "-", "-">>,
     and_word |-> <<"a", "n", "d">>,
     taluka_name |-> <<"t", "a", "l", "u", "k", "a", " ", "n", "a", "m", "e">>,
     village_name |-> <<"v", "i", "l", "l", "a", "g", "e", " ", "n", "a", "m", "e">>,
     subdiv_no |-> <<"s", "u", "b", "d", "i", "v", " ", "n", "o">>]

\* Occupants Names\s*:      (line 122)
OccLabel(s, p) ==
    LET a == LitI(s, p, Labels.occupants_names)
    IN Then(a, Colon(s, SkipWs(s, a)))

\* Tenants\s+names
TenWords(s, p) ==
    LET a == LitI(s, p, Labels.tenants)
        b == Then(a, Ws1(s, a))
    IN Then(b, LitI(s, b, Labels.names))

\* Tenants\s+names\s*:      (lines 122, 123)
TenLabel(s, p) ==
    LET a == TenWords(s, p)
    IN Then(a, Colon(s, SkipWs(s, a)))

\* Total Area\s*:           (lines 122, 123)
TotLabel(s, p) ==
    LET a == LitI(s, p, Labels.total_area)
    IN Then(a, Colon(s, SkipWs(s, a)))

\* -------|---------
DashRule(s, p) == Lit(s, p, Labels.dash7) # 0 \/ Lit(s, p, Labels.dash9) # 0

\* \Z
AtEnd(s, p) == p = Len(s) + 1

\* (?=Tenants\s+names\s*:|Total Area\s*:|-------|---------|\Z)    (line 122)
OccLookahead(s, p) ==
    \/ TenLabel(s, p) # 0
    \/ TotLabel(s, p) # 0
    \/ DashRule(s, p)
    \/ AtEnd(s, p)

\* (?=Total Area\s*:|-------|---------|\Z)                         (line 123)
TenLookahead(s, p) ==
    \/ TotLabel(s, p) # 0
    \/ DashRule(s, p)
    \/ AtEnd(s, p)

SectionLabel(which, s, p) ==
    IF which = "occupants" THEN OccLabel(s, p) ELSE TenLabel(s, p)

SectionLookahead(which, s, p) ==
    IF which = "occupants" THEN OccLookahead(s, p) ELSE TenLookahead(s, p)

NoMatch == [found |-> FALSE, start |-> 0, from |-> 0, to |-> 0]

\* label \s* (.+?) lookahead, tried at index p.  \s* is greedy and gives
\* back at most what (.+?) needs: the group starts after the whitespace run,
\* or on its last character when the run reaches the end of the text; the
\* lazy group then grows to the first index where the lookahead holds.
\* The group is s[from .. to-1].

\* where the group starts, c being the index after the label's colon
GroupStart(s, c) == IF SkipWs(s, c) <= Len(s) THEN SkipWs(s, c) ELSE Len(s)

\* where the lazy group that starts at g ends (the index after it)
GroupEnd(which, s, g) ==
    Min({e \in (g + 1)..(Len(s) + 1) : SectionLookahead(which, s, e)})

SectionFromGroup(which, s, p, c, g) ==
    IF g < c THEN NoMatch
    ELSE [found |-> TRUE, start |-> p, from |-> g,
          to |-> GroupEnd(which, s, g)]

SectionFromLabel(which, s, p, c) ==
    IF c = 0 THEN NoMatch
    ELSE SectionFromGroup(which, s, p, c, GroupStart(s, c))

SectionAt(which, s, p) ==
    SectionFromLabel(which, s, p, SectionLabel(which, s, p))

SectionAmong(which, s, ps) ==
    IF ps = {} THEN NoMatch ELSE SectionAt(which, s, Min(ps))

\* the letter a section label starts with: no match starts elsewhere
SectionInitial(which) == IF which = "occupants" THEN "o" ELSE "t"

\* re.search: the match at the leftmost index that has one
SectionSearch(which, s) ==
    SectionAmong(which, s,
                 {p \in 1..Len(s) : /\ LowerCh(s[p]) = SectionInitial(which)
                                     /\ SectionAt(which, s, p).found})


(***************************************************************************)
(* parse_owners_raw_field: name lists (lines 126-181)                      *)
(***************************************************************************)
\* \d+\)\.\s*               (lines 130, 132, 159, 161)
NumberedMarker(s, p) ==
    LET d == SkipClass(s, p, Digits)
    IN IF /\ p >= 1
          /\ d > p
          /\ d + 1 <= Len(s)
          /\ s[d] = ")"
          /\ s[d + 1] = "."
       THEN SkipWs(s, d + 2) ELSE 0

\* [,;]\s*|\s+and\s+       (line 164; no flags: 'and' is case-sensitive)
TenantSeparator(s, p) ==
    IF p >= 1 /\ p <= Len(s) /\ s[p] \in {",", ";"}
    THEN SkipWs(s, p + 1)
    ELSE LET a == Ws1(s, p)
             b == Then(a, Lit(s, a, Labels.and_word))
         IN Then(b, Ws1(s, b))

Separator(kind, s, p) ==
    IF kind = "numbered" THEN NumberedMarker(s, p) ELSE TenantSeparator(s, p)

\* re.search(pattern, s) is not None
Found(kind, s) == \E p \in 1..Len(s) : Separator(kind, s, p) # 0

\* the leftmost index from p on where the pattern matches, or 0
NextSeparator(kind, s, p) ==
    MinOrZero({q \in p..Len(s) : Separator(kind, s, q) # 0})

RECURSIVE ReSplitAt(_, _, _, _)
\* re.split(pattern, s): the pieces between the matches, found left to
\* right; last is where the current piece starts, m where the next match is
ReSplitAt(kind, s, last, m) ==
    IF m = 0 THEN <<SubSeq(s, last, Len(s))>>
    ELSE <<SubSeq(s, last, m - 1)>>
         \o ReSplitAt(kind, s, Separator(kind, s, m),
                      NextSeparator(kind, s, Separator(kind, s, m)))

ReSplit(kind, s) == ReSplitAt(kind, s, 1, NextSeparator(kind, s, 1))

Symbols == {"%", "#", "&", "*", "!", "@", "$", "^", "(", ")"}

\* re.sub(r'^[%#&*!@$^()]+\s*', '', part)
StripSymbolPrefix(t) ==
    IF t # <<>> /\ t[1] \in Symbols
    THEN SubSeq(t, SkipWs(t, SkipClass(t, 1, Symbols)), Len(t))
    ELSE t

\* re.sub(r'[,\s\n\r]+$', '', name)
StripTrailing(t) ==
    SubSeq(t, 1, SkipClassBack(t, Len(t), {","} \cup Whitespace))

RECURSIVE RunsToSpace(_, _, _)
\* re.sub(r'[cs]+', ' ', t) from index p on: every run of characters of cs
\* becomes one space
RunsToSpace(t, p, cs) ==
    LET at == {k \in p..Len(t) : t[k] \in cs}
    IN IF at = {} THEN SubSeq(t, p, Len(t))
       ELSE SubSeq(t, p, Min(at) - 1) \o <<SP>>
            \o RunsToSpace(t, SkipClass(t, Min(at), cs), cs)

\* re.sub(r'\s+', ' ', name)
CollapseWs(t) == RunsToSpace(t, 1, Whitespace)

\* lines 142-146 and 172-175
CleanName(part) ==
    CollapseWs(Strip(StripTrailing(Strip(StripSymbolPrefix(part)))))

\* ['nil', 'null', 'none', 'na', 'n/a', '-']
Placeholders ==
    { <<"n", "i", "l">>, <<"n", "u", "l", "l">>, <<"n", "o", "n", "e">>,
      <<"n", "a">>, <<"n", "/", "a">>, <<"-">> }

InList(x, list) == \E k \in 1..Len(list) : list[k] = x

\* a test that compares the name itself with the placeholder tokens
AcceptedCaseSensitive(name, names) ==
    /\ name # <<>>
    /\ name \notin Placeholders
    /\ ~InList(name, names)

\* a test that lets a name in again
AcceptedDuplicates(name, names) ==
    /\ name # <<>>
    /\ Lower(name) \notin Placeholders

\* the test of lines 148 and 177
Accepted(name, names) ==
    /\ name # <<>>
    /\ Lower(name) \notin Placeholders
    /\ ~InList(name, names)

\* one turn of the loop: part is the stripped piece, names the list so far
WithName(part, cleaned, names) ==
    IF part # <<>> /\ Accepted(cleaned, names)
    THEN Append(names, cleaned) ELSE names

WithPart(part, names) == WithName(part, CleanName(part), names)

RECURSIVE CollectNames(_, _)
\* the for loop of lines 138-149 and 168-178, names being the list so far
CollectNames(parts, names) ==
    IF parts = <<>> THEN names
    ELSE CollectNames(Tail(parts), WithPart(Strip(Head(parts)), names))

\* a split that treats the Occupants section as it treats the Tenants one
SectionPartsSplitsOccupants(which, section_text) ==
    IF Found("numbered", section_text)
    THEN ReSplit("numbered", section_text)
    ELSE ReSplit("separators", section_text)

\* lines 130-135 and 159-164
SectionParts(which, section_text) ==
    IF Found("numbered", section_text)
    THEN ReSplit("numbered", section_text)
    ELSE IF which = "occupants" THEN <<section_text>>
         ELSE ReSplit("separators", section_text)

\* the names of the section matched by m
NamesOfMatch(which, text, m) ==
    IF m.found
    THEN CollectNames(SectionParts(which,
                          Strip(SubSeq(text, m.from, m.to - 1))), <<>>)
    ELSE <<>>

\* the names of one section, <<>> when the section does not match
SectionNames(which, text) ==
    NamesOfMatch(which, text, SectionSearch(which, text))


(***************************************************************************)
(* parse_owners_raw_field: remarks (lines 183-209)                         *)
(***************************************************************************)

\* label\s*:
Labelled(s, p, label) ==
    LET a == LitI(s, p, label)
    IN Then(a, Colon(s, SkipWs(s, a)))

\* \s+ and then a literal
WsThenLitI(s, p, label) ==
    LET a == Ws1(s, p)
    IN Then(a, LitI(s, a, label))

RuleChars == {"-", "="}

\* [-=]{3,} (greedy)
RuleRun(s, p) ==
    IF p >= 1 /\ SkipClass(s, p, RuleChars) >= p + 3
    THEN SkipClass(s, p, RuleChars) ELSE 0

\* ^ and $ under re.MULTILINE
LineStart(s, p) == p = 1 \/ s[p - 1] = NL
LineEnd(s, p) == p = Len(s) + 1 \/ s[p] = NL

\* ^\s*$ : the greedy run gives back until $ holds
BlankLine(s, p) ==
    IF LineStart(s, p) /\ \E e \in p..SkipWs(s, p) : LineEnd(s, e)
    THEN Max({e \in p..SkipWs(s, p) : LineEnd(s, e)})
    ELSE 0

\* the lookahead standard_patterns[k] ends with (k in 1..6):
\*   1  (?=\s+Village Name|Subdiv No|Occupants Names|Tenants\s+names|Total Area|\Z)
\*   2  (?=\s+Subdiv No|Occupants Names|Tenants\s+names|Total Area|\Z)
\*   3  (?=\s+Occupants Names|Tenants\s+names|Total Area|\Z)
\*   4  (?=\s*[-=]{3,}|\Z)
\*   5, 6  those of lines 122 and 123
PatternLookahead(k, s, p) ==
    CASE k = 1 -> (\/ WsThenLitI(s, p, Labels.village_name) # 0
                   \/ LitI(s, p, Labels.subdiv_no) # 0
                   \/ LitI(s, p, Labels.occupants_names) # 0
                   \/ TenWords(s, p) # 0
                   \/ LitI(s, p, Labels.total_area) # 0
                   \/ AtEnd(s, p))
      [] k = 2 -> (\/ WsThenLitI(s, p, Labels.subdiv_no) # 0
                   \/ LitI(s, p, Labels.occupants_names) # 0
                   \/ TenWords(s, p) # 0
                   \/ LitI(s, p, Labels.total_area) # 0
                   \/ AtEnd(s, p))
      [] k = 3 -> (\/ WsThenLitI(s, p, Labels.occupants_names) # 0
                   \/ TenWords(s, p) # 0
                   \/ LitI(s, p, Labels.total_area) # 0
                   \/ AtEnd(s, p))
      [] k = 4 -> (\/ RuleRun(s, SkipWs(s, p)) # 0
                   \/ AtEnd(s, p))
      [] k = 5 -> OccLookahead(s, p)
      [] k = 6 -> TenLookahead(s, p)

\* a lazy run from c up to the first index where the lookahead of
\* standard_patterns[k] holds: .*? when anyChar, [^:]*? otherwise.  The
\* index where the run ends, or 0.
LazyUntil(k, s, c, anyChar) ==
    IF c = 0 THEN 0
    ELSE MinOrZero({e \in c..(Len(s) + 1) :
                       /\ PatternLookahead(k, s, e)
                       /\ anyChar \/ \A m \in c..(e - 1) : s[m] # ":"})

\* standard_patterns[k], tried at index p   (lines 190-199)
StandardPattern(k, s, p) ==
    CASE k = 1 -> LazyUntil(k, s, Labelled(s, p, Labels.taluka_name), FALSE)
      [] k = 2 -> LazyUntil(k, s, Labelled(s, p, Labels.village_name), FALSE)
      [] k = 3 -> LazyUntil(k, s, Labelled(s, p, Labels.subdiv_no), FALSE)
      [] k = 4 -> LazyUntil(k, s, Labelled(s, p, Labels.total_area), FALSE)
      [] k = 5 -> LazyUntil(k, s, OccLabel(s, p), TRUE)
      [] k = 6 -> LazyUntil(k, s, TenLabel(s, p), TRUE)
      [] k = 7 -> RuleRun(s, p)
      [] k = 8 -> BlankLine(s, p)

NumStandardPatterns == 8

\* the characters a non-empty match of standard_patterns[k] can start with
\* (in lower case): the label's first letter, a rule character, whitespace
PatternInitials ==
    << {"t"}, {"v"}, {"s"}, {"t"}, {"o"}, {"t"}, RuleChars, Whitespace >>

\* the leftmost index from p on with a non-empty match, or 0
NextMatch(k, s, p) ==
    MinOrZero({q \in p..Len(s) : /\ LowerCh(s[q]) \in PatternInitials[k]
                                  /\ StandardPattern(k, s, q) > q})

RECURSIVE RemoveFrom(_, _, _, _)
\* re.sub(standard_patterns[k], '', s): the text from index p on with every
\* (non-empty) match removed, matches being found left to right; m is where
\* the next match is
RemoveFrom(k, s, p, m) ==
    IF m = 0 THEN SubSeq(s, p, Len(s))
    ELSE SubSeq(s, p, m - 1)
         \o RemoveFrom(k, s, StandardPattern(k, s, m),
                       NextMatch(k, s, StandardPattern(k, s, m)))

RemoveAll(k, s, p) == RemoveFrom(k, s, p, NextMatch(k, s, p))

RECURSIVE RemoveStandard(_, _)
\* the for loop of lines 201-202, from pattern k on
RemoveStandard(k, s) ==
    IF k > NumStandardPatterns THEN s
    ELSE RemoveStandard(k + 1, RemoveAll(k, s, 1))

\* re.sub(r'\n+', ' ', s)
NewlinesToSpace(s) == RunsToSpace(s, 1, {NL})

\* lines 187-207
Remarks(text) == Strip(CollapseWs(NewlinesToSpace(RemoveStandard(1, text))))


(***************************************************************************)
(* parse_owners_raw_field                                                  *)
(***************************************************************************)
\* most segments a text is made of
MaxSegs == 4

\* what the texts are made of: the two section labels, a numbered-list
\* marker, two names that differ by case only, a placeholder, the comma, a
\* prefix symbol and the space
Segments ==
    { <<"O", "c", "c", "u", "p", "a", "n", "t", "s", " ", "N", "a", "m", "e", "s", ":">>,
      <<"T", "e", "n", "a", "n", "t", "s", " ", "n", "a", "m", "e", "s", ":">>,
      <<"1", ")", ".">>,
      <<"N", "i", "l">>,
      <<"a">>, <<"A">>, <<SP>>, <<",">>, <<"%">> }

RECURSIVE Concat(_)
Concat(segs) == IF segs = <<>> THEN <<>> ELSE Head(segs) \o Concat(Tail(segs))

Texts == { Concat(segs) : segs \in UNION { [1..n -> Segments] : n \in 0..MaxSegs } }

\* a Python value: a str, None, float('nan'), a number, or a list, of which
\* only pd.isna of each item matters
StrValue(t) == [kind |-> "str", text |-> t]
NonStringValues ==
    { [kind |-> "None"], [kind |-> "nan"], [kind |-> "number"] }
    \cup { [kind |-> "list", isna |-> l] :
              l \in UNION { [1..n -> BOOLEAN] : n \in 0..2 } }

Values == { StrValue(t) : t \in Texts } \cup NonStringValues

\* pd.isna(v): a bool for a scalar, an array of bools for a list
IsNa(v) ==
    CASE v.kind = "list" -> [array |-> TRUE, items |-> v.isna]
      [] v.kind \in {"None", "nan"} -> [array |-> FALSE, items |-> <<TRUE>>]
      [] OTHER -> [array |-> FALSE, items |-> <<FALSE>>]

\* the outcomes of bool(x) in 'x or ...': an array of two or more items
\* raises ValueError; an empty array is False or raises, by NumPy version
Truth(x) ==
    IF ~x.array \/ Len(x.items) = 1
    THEN {IF x.items[1] THEN "True" ELSE "False"}
    ELSE IF Len(x.items) = 0 THEN {"False", "raise"}
    ELSE {"raise"}

\* isinstance(v, str)
IsStr(v) == v.kind = "str"

NoResult == [kind |-> "none"]
DefaultResult ==
    [kind |-> "dict", occupant_count |-> 0, occupant_names |-> <<>>,
     tenant_count |-> 0, tenant_names |-> <<>>, remarks |-> <<>>]

\* a result whose tenant count is taken from the occupants' list
OwnerInfoCountsOccupantsTwice(occupant_names, tenant_names, remarks) ==
    [kind |-> "dict",
     occupant_count |-> Len(occupant_names),
     occupant_names |-> occupant_names,
     tenant_count |-> Len(occupant_names),
     tenant_names |-> tenant_names,
     remarks |-> remarks]

\* lines 151-152, 180-181, 209: the result dict
OwnerInfo(occupant_names, tenant_names, remarks) ==
    [kind |-> "dict",
     occupant_count |-> Len(occupant_names),
     occupant_names |-> occupant_names,
     tenant_count |-> Len(tenant_names),
     tenant_names |-> tenant_names,
     remarks |-> remarks]

\* lines 120-211, text being the stripped input
ParseText(text) ==
    OwnerInfo(SectionNames("occupants", text), SectionNames("tenants", text),
              Remarks(text))

ParsedOwnerInfo(owners_raw) == ParseText(Strip(owners_raw))

ReasmIdle ==
    /\ file_path = <<>>
    /\ fs = [p \in Paths |-> NoFile]
    /\ pc = "idle"
    /\ lines = <<>>
    /\ idx = 0
    /\ in_multiline_field = FALSE
    /\ multiline_content = <<>>
    /\ output_lines = <<>>
    /\ temp_file = <<>>

ExtractInit ==
    /\ owners_raw_text \in Values
    /\ xpc = "start"
    /\ result = NoResult
    /\ ReasmIdle
    /\ file_encoding = "utf-8"
    /\ LoadIdle
    /\ UrlIdle
    /\ DlIdle

\* line 100: evaluating the condition raises
ParseRaises ==
    /\ xpc = "start"
    /\ "raise" \in Truth(IsNa(owners_raw_text))
    /\ xpc' = "raised"
    /\ UNCHANGED <<owners_raw_text, result>>
    /\ UNCHANGED <<reasmVars, loadVars, file_encoding, urlVars, dlVars>>

\* lines 100-107: NaN or not a str
ParseDefault ==
    /\ xpc = "start"
    /\ \/ "True" \in Truth(IsNa(owners_raw_text))
       \/ "False" \in Truth(IsNa(owners_raw_text)) /\ ~IsStr(owners_raw_text)
    /\ result' = DefaultResult
    /\ xpc' = "returned"
    /\ UNCHANGED owners_raw_text
    /\ UNCHANGED <<reasmVars, loadVars, file_encoding, urlVars, dlVars>>

\* lines 109-211: a str
ParseString ==
    /\ xpc = "start"
    /\ "False" \in Truth(IsNa(owners_raw_text))
    /\ IsStr(owners_raw_text)
    /\ result' = ParsedOwnerInfo(owners_raw_text.text)
    /\ xpc' = "returned"
    /\ UNCHANGED owners_raw_text
    /\ UNCHANGED <<reasmVars, loadVars, file_encoding, urlVars, dlVars>>

(***************************************************************************)
(* Properties of parse_owners_raw_field                                    *)
(***************************************************************************)
Returned == xpc = "returned"
TextOf(t) == owners_raw_text = StrValue(t)

L_OccupantsLabel ==
    <<"O", "c", "c", "u", "p", "a", "n", "t", "s", " ", "N", "a", "m", "e", "s", ":">>
L_TenantsLabel ==
    <<"T", "e", "n", "a", "n", "t", "s", " ", "n", "a", "m", "e", "s", ":">>

\* C6: on every return path (default, section matched, section not matched)
\* occupant_count is the length of occupant_names and tenant_count the
\* length of tenant_names.
C6_CountsAreLengths ==
    Returned =>
        /\ result.occupant_count = Len(result.occupant_names)
        /\ result.tenant_count = Len(result.tenant_names)

\* both sections matched, with one name each
C6_Witness ==
    /\ Returned
    /\ TextOf(L_OccupantsLabel \o <<"a">> \o L_TenantsLabel \o <<"A">>)
    /\ result.occupant_count = 1
    /\ result.tenant_count = 1

\* case-insensitively one of nil, null, none, na, n/a, -
IsPlaceholder(name) ==
    \E ph \in Placeholders :
        /\ Len(ph) = Len(name)
        /\ \A k \in 1..Len(ph) : LowerCh(name[k]) = ph[k]

GoodName(name) == ~IsBlank(name) /\ ~IsPlaceholder(name)

\* C7: no returned occupant or tenant name is a placeholder token (compared
\* case-insensitively), and none is empty or whitespace-only.
C7_NoPlaceholderNames ==
    Returned =>
        /\ \A k \in 1..Len(result.occupant_names) :
               GoodName(result.occupant_names[k])
        /\ \A k \in 1..Len(result.tenant_names) :
               GoodName(result.tenant_names[k])

\* '%Nil,' is a placeholder once its prefix symbol and trailing comma are
\* stripped, and was left out
C7_Witness ==
    /\ Returned
    /\ TextOf(L_TenantsLabel \o <<"%">> \o <<"N", "i", "l">> \o <<",">>)
    /\ result.tenant_names = <<>>
    /\ result.tenant_count = 0

\* the normalized fragments of a section of the input, in text order
Fragments(which) ==
    LET text == Strip(owners_raw_text.text)
        m == SectionSearch(which, text)
        parts == SectionParts(which, Strip(SubSeq(text, m.from, m.to - 1)))
    IN IF m.found
       THEN [k \in 1..Len(parts) |-> CleanName(Strip(parts[k]))]
       ELSE <<>>

FirstAt(list, x) == Min({k \in 1..Len(list) : list[k] = x})

\* names has no two equal entries, holds exactly the fragments that are
\* names, and holds them in the order in which they first occur
OrderedSetOf(names, fragments) ==
    /\ \A i, j \in 1..Len(names) : i # j => names[i] # names[j]
    /\ \A i \in 1..Len(names) : InList(names[i], fragments)
    /\ \A k \in 1..Len(fragments) :
           GoodName(fragments[k]) => InList(fragments[k], names)
    /\ \A i, j \in 1..Len(names) :
           i < j => FirstAt(fragments, names[i]) < FirstAt(fragments, names[j])

\* C8: occupant_names and tenant_names hold no two equal entries
\* (case-sensitive comparison), in the order of first occurrence in the
\* section text.
C8_NamesAreOrderedSets ==
    (Returned /\ IsStr(owners_raw_text)) =>
        /\ OrderedSetOf(result.occupant_names, Fragments("occupants"))
        /\ OrderedSetOf(result.tenant_names, Fragments("tenants"))

\* 'a,a' gives one tenant
C8_Witness ==
    /\ Returned
    /\ TextOf(L_TenantsLabel \o <<"a", ",", "a">>)
    /\ result.tenant_names = << <<"a">> >>

\* C9: the extractor never raises, and a null, NaN or non-string input gives
\* the all-default result.
C9_NeverRaises ==
    /\ xpc # "raised"
    /\ (Returned /\ ~IsStr(owners_raw_text)) => result = DefaultResult


ExtractNext ==
    \/ ParseRaises
    \/ ParseDefault
    \/ ParseString

ExtractSpec == ExtractInit /\ [][ExtractNext]_vars

(***************************************************************************)
(* load_and_validate_data                                                  *)
(***************************************************************************)
\* most rows of the table
MaxRows == 2

\* the values read_csv gives a cell: a str, NaN, a bool or a number
NaN == [kind |-> "nan"]
Bool(b) == [kind |-> "bool", b |-> b]
Number(n) == [kind |-> "number", n |-> n]

\* the texts of lines 251, 313 and 327: str(nan), str(True), str(False),
\* 'TRUE' and '[]'
PyText ==
    [nan |-> <<"n", "a", "n">>,
     bool_true |-> <<"T", "r", "u", "e">>,
     bool_false |-> <<"F", "a", "l", "s", "e">>,
     upper_true |-> <<"T", "R", "U", "E">>,
     empty_list |-> <<"[", "]">>]

DigitChars == <<"0", "1", "2", "3", "4", "5", "6", "7", "8", "9">>
DigitOf(c) == CHOOSE d \in 0..9 : DigitChars[d + 1] = c

RECURSIVE IntStr(_)
\* str(n) for an int n >= 0
IntStr(n) ==
    IF n < 10 THEN <<DigitChars[n + 1]>>
    ELSE IntStr(n \div 10) \o <<DigitChars[(n % 10) + 1]>>

RECURSIVE DigitsValue(_)
\* int(t) for a string of digits; 0 for the empty string
DigitsValue(t) ==
    IF t = <<>> THEN 0
    ELSE DigitsValue(SubSeq(t, 1, Len(t) - 1)) * 10 + DigitOf(t[Len(t)])

\* str.upper() of one character, and of a string
UpperCh(c) ==
    IF \E u \in DOMAIN UpperToLower : UpperToLower[u] = c
    THEN CHOOSE u \in DOMAIN UpperToLower : UpperToLower[u] = c
    ELSE c
Upper(s) == [k \in 1..Len(s) |-> UpperCh(s[k])]

\* the cells of column c
Cells(table, c) == { table[i][c] : i \in 1..Len(table) }
HasKind(table, c, kind) == \E v \in Cells(table, c) : v.kind = kind

\* the column's dtype is float64: numbers with a missing value among them
FloatColumn(table, c) == HasKind(table, c, "number") /\ HasKind(table, c, "nan")

\* Series.astype(str), for one cell; asFloat: the column is float64
AsStr(v, asFloat) ==
    CASE v.kind = "str" -> v.text
      [] v.kind = "nan" -> PyText.nan
      [] v.kind = "bool" -> IF v.b THEN PyText.bool_true ELSE PyText.bool_false
      [] v.kind = "number" ->
             IntStr(v.n) \o (IF asFloat THEN <<".", "0">> ELSE <<>>)

CellStr(table, i, c) == AsStr(table[i][c], FloatColumn(table, c))

\* row with column c set to v (added when the row has no such column)
SetCol(row, c, v) == (c :> v) @@ row

\* ---- lines 249-251
\* line 250
TalukaCol(cols) == IF "Taluka" \in cols THEN "Taluka" ELSE "taluka"

\* line 251: df[taluka_col].astype(str).str.strip()
StripColumn(table, c) ==
    [i \in 1..Len(table) |->
        SetCol(table[i], c, StrValue(Strip(CellStr(table, i, c))))]

\* ---- lines 253-275
AreaCols == <<"Bhunaksha Area", "RoR Area">>
\* f'{col}_clean'
CleanCol(col) ==
    IF col = "Bhunaksha Area" THEN "Bhunaksha Area_clean" ELSE "RoR Area_clean"

NumericChar(c) == c \in Digits \cup {"."}
\* str.replace(r'[^0-9.]', '', regex=True)
KeepNumeric(t) == SelectSeq(t, NumericChar)

\* where the first '.' of t is, Len(t) + 1 when it has none
DotAt(t) == Min({k \in 1..(Len(t) + 1) : k = Len(t) + 1 \/ t[k] = "."})
AllZeros(t) == \A k \in 1..Len(t) : t[k] = "0"

\* pd.to_numeric(t, errors='coerce') for a string of digits and dots: NaN
\* for a string with no digit or with two dots or more, the number for a
\* string with no fractional part (the cells drawn below have none)
ToNumeric(t) ==
    CASE Count(t, ".") >= 2 \/ Count(t, ".") = Len(t) -> NaN
      [] /\ Count(t, ".") <= 1
         /\ Count(t, ".") < Len(t)
         /\ AllZeros(SubSeq(t, DotAt(t) + 1, Len(t))) ->
             Number(DigitsValue(SubSeq(t, 1, DotAt(t) - 1)))

\* lines 257-258 for one cell
CleanArea(t) ==
    IF ToNumeric(KeepNumeric(t)).kind = "nan" THEN Number(0)
    ELSE ToNumeric(KeepNumeric(t))

\* lines 255-258 for one column
ConvertColumn(d, col) ==
    IF col \in d.columns
    THEN [columns |-> d.columns \cup {CleanCol(col)},
          rows |-> [i \in 1..Len(d.rows) |->
                      SetCol(d.rows[i], CleanCol(col),
                             CleanArea(CellStr(d.rows, i, col)))]]
    ELSE d

\* lines 262, 263
AreaCol(cols, col) == IF CleanCol(col) \in cols THEN CleanCol(col) ELSE col

\* lines 267-271 for one row; the areas drawn below make the quotient whole
DiffPct(bhunaksha, ror) ==
    IF bhunaksha.n > 0
    THEN Number(((ror.n - bhunaksha.n) * 100) \div bhunaksha.n)
    ELSE Number(0)

\* lines 265-275
WithAreaDiff(d) ==
    [columns |-> d.columns \cup {"ror_bhunaksha_area_diff_pct"},
     rows |-> [i \in 1..Len(d.rows) |->
        SetCol(d.rows[i], "ror_bhunaksha_area_diff_pct",
               IF /\ AreaCol(d.columns, AreaCols[1]) \in d.columns
                  /\ AreaCol(d.columns, AreaCols[2]) \in d.columns
               THEN DiffPct(d.rows[i][AreaCol(d.columns, AreaCols[1])],
                            d.rows[i][AreaCol(d.columns, AreaCols[2])])
               ELSE Number(0))]]

\* ---- lines 277-302
comunidade_variations ==
    { <<"C", "o", "m", "m", "i", "n", "i", "d", "a", "d", "e">>,
      <<"C", "o", "m", "m", "m", "u", "n", "i", "d", "a", "d", "e">>,
      <<"C", "o", "m", "m", "n", "n", "i", "d", "a", "d", "e">>,
      <<"C", "o", "m", "m", "n", "u", "n", "i", "d", "a", "d", "e">>,
      <<"C", "o", "m", "m", "o", "n", "i", "d", "a", "d", "e">>,
      <<"C", "o", "m", "m", "u", "d", "a", "d", "e">>,
      <<"C", "o", "m", "m", "u", "d", "i", "d", "a", "d", "e">>,
      <<"C", "o", "m", "m", "u", "i", "d", "a", "d", "e">>,
      <<"C", "o", "m", "m", "u", "n", "d", "a", "d", "e">>,
      <<"C", "o", "m", "m", "u", "n", "d", "i", "a", "d", "e">>,
      <<"C", "o", "m", "m", "u", "n", "i", "a", "d", "e">>,
      <<"C", "o", "m", "m", "u", "n", "i", "c", "a", "d", "e">>,
      <<"C", "o", "m", "m", "u", "n", "i", "d">>,
      <<"C", "o", "m", "m", "u", "n", "i", "d", "a">>,
      <<"C", "o", "m", "m", "u", "n", "i", "d", "a", "d">>,
      <<"C", "o", "m", "m", "u", "n", "i", "d", "a", "d", "3", "e">>,
      <<"C", "o", "m", "m", "u", "n", "i", "d", "a", "d", "a">>,
      <<"C", "o", "m", "m", "u", "n", "i", "d", "a", "d", "e">>,
      <<"C", "o", "m", "m", "u", "n", "i", "d", "a", "d", "e", "e">>,
      <<"C", "o", "m", "m", "u", "n", "i", "d", "a", "e">>,
      <<"C", "o", "m", "m", "u", "n", "i", "d", "a", "e", "d", "e">>,
      <<"C", "o", "m", "m", "u", "n", "i", "d", "a", "s", "d", "e">>,
      <<"C", "o", "m", "m", "u", "n", "i", "d", "d", "a", "d", "e">>,
      <<"C", "o", "m", "m", "u", "n", "i", "d", "d", "e">>,
      <<"C", "o", "m", "m", "u", "n", "i", "d", "e">>,
      <<"C", "o", "m", "m", "u", "n", "i", "d", "e", "d", "e">>,
      <<"C", "o", "m", "m", "u", "n", "i", "n", "d", "a", "d", "e">>,
      <<"C", "o", "m", "m", "u", "n", "n", "i", "d", "a", "d", "e">>,
      <<"C", "o", "m", "m", "u", "n", "u", "d", "a", "d", "e">>,
      <<"C", "o", "m", "u", "i", "d", "a", "d", "e">>,
      <<"C", "o", "m", "u", "n", "d", "i", "a", "d", "e">>,
      <<"C", "o", "m", "u", "n", "i", "a", "d", "e">>,
      <<"C", "o", "m", "u", "n", "i", "d", "a", "d">>,
      <<"C", "o", "m", "u", "n", "i", "d", "a", "d", "e">>,
      <<"C", "o", "m", "u", "n", "i", "d", "a", "e">> }

\* str.contains('|'.join(literals), case=False, regex=True): some literal
\* occurs in t, letters compared without case
ContainsAny(t, literals) ==
    \E lit \in literals :
        \E p \in 1..Len(t) : LitI(t, p, Lower(lit)) # 0

\* a flag that looks at the 'Communidade' column first
IsComunidadeColumnFirst(d, i) ==
    IF "Communidade" \in d.columns
    THEN Bool(Upper(CellStr(d.rows, i, "Communidade")) = PyText.upper_true)
    ELSE IF "Owners Raw" \in d.columns
    THEN Bool(ContainsAny(CellStr(d.rows, i, "Owners Raw"),
                          comunidade_variations))
    ELSE Bool(FALSE)

\* lines 288-302 for row i
IsComunidade(d, i) ==
    IF "Owners Raw" \in d.columns
    THEN Bool(ContainsAny(CellStr(d.rows, i, "Owners Raw"),
                          comunidade_variations))
    ELSE IF "Communidade" \in d.columns
    THEN Bool(Upper(CellStr(d.rows, i, "Communidade")) = PyText.upper_true)
    ELSE Bool(FALSE)

WithComunidade(d) ==
    [columns |-> d.columns \cup {"is_comunidade"},
     rows |-> [i \in 1..Len(d.rows) |->
                 SetCol(d.rows[i], "is_comunidade", IsComunidade(d, i))]]

\* ---- lines 304-344
\* line 309: parse_owners_raw_field for one cell (read_csv gives scalars,
\* for which line 100 does not raise)
ParseCell(v) ==
    IF "True" \in Truth(IsNa(v)) \/ ~IsStr(v)
    THEN DefaultResult
    ELSE ParsedOwnerInfo(v.text)

JsonEscapes ==
    (DQ :> <<"\\", DQ>>) @@ ("\\" :> <<"\\", "\\">>) @@ (NL :> <<"\\", "n">>)
    @@ ("\t" :> <<"\\", "t">>) @@ ("\r" :> <<"\\", "r">>)

RECURSIVE JsonEscape(_)
\* the body of a JSON string, ensure_ascii=False
JsonEscape(t) ==
    IF t = <<>> THEN <<>>
    ELSE (IF Head(t) \in DOMAIN JsonEscapes THEN JsonEscapes[Head(t)]
          ELSE <<Head(t)>>) \o JsonEscape(Tail(t))

\* lines 313, 315: json.dumps(names, ensure_ascii=False) if names else '[]'
JsonNames(names) ==
    IF names = <<>> THEN PyText.empty_list
    ELSE <<"[">> \o Join(<<",", SP>>, 
                     [k \in 1..Len(names) |->
                         <<DQ>> \o JsonEscape(names[k]) \o <<DQ>>])
         \o <<"]">>

\* a test on the occupants' count
TenantedFromOccupants(parsed) == Bool(parsed.occupant_count > 0)

\* line 323
TenantedFromCount(parsed) == Bool(parsed.tenant_count > 0)

\* lines 312-316, 323 (330-334, 340-344) for one row
WithParsed(row, parsed, is_tenanted) ==
    ("occupant_count" :> Number(parsed.occupant_count))
    @@ ("occupant_names" :> StrValue(JsonNames(parsed.occupant_names)))
    @@ ("tenant_count" :> Number(parsed.tenant_count))
    @@ ("tenant_names" :> StrValue(JsonNames(parsed.tenant_names)))
    @@ ("remarks" :> StrValue(parsed.remarks))
    @@ ("is_tenanted" :> is_tenanted)
    @@ row

ParsedCols ==
    {"occupant_count", "occupant_names", "tenant_count", "tenant_names",
     "remarks", "is_tenanted"}

\* lines 309-323 for one row
WithOwnersRaw(row, parsed) == WithParsed(row, parsed, TenantedFromCount(parsed))

\* line 327 for row i
TenantedFromColumn(d, i) ==
    Bool(Upper(CellStr(d.rows, i, "Tenanted")) = PyText.upper_true)

\* ---- lines 346-362
government_keywords ==
    { <<"g", "o", "v", "e", "r", "n", "m", "e", "n", "t">>,
      <<"g", "o", "v", "t">>,
      <<"r", "a", "i", "l", "w", "a", "y">>,
      <<SP, "r", "l", "y", SP>>,
      <<"b", "l", "o", "c", "k", SP, SP>>,
      <<"f", "o", "r", "e", "s", "t">>,
      <<SP, "e", "n", "g", "i", "n", "e", "e", "r">>,
      <<"o", "f", "f", "i", "c", "e", "r">>,
      <<"d", "e", "p", "a", "r", "t", "m", "e", "n", "t">>,
      <<"m", "i", "n", "i", "s", "t", "r", "y">>,
      <<"d", "i", "v", "i", "s", "i", "o", "n">> }

\* lines 352-362 for row i
IsGovernment(d, i) ==
    IF "Owners Raw" \in d.columns
    THEN Bool(ContainsAny(CellStr(d.rows, i, "Owners Raw"),
                          government_keywords))
    ELSE Bool(FALSE)

WithGovernment(d) ==
    [columns |-> d.columns \cup {"is_government"},
     rows |-> [i \in 1..Len(d.rows) |->
                 SetCol(d.rows[i], "is_government", IsGovernment(d, i))]]

\* ---- lines 364-365
RECURSIVE KeepFirsts(_, _)
\* the rows from index i on that equal no earlier row
KeepFirsts(table, i) ==
    IF i > Len(table) THEN <<>>
    ELSE (IF \A j \in 1..(i - 1) : table[j] # table[i] THEN <<table[i]>> ELSE <<>>)
         \o KeepFirsts(table, i + 1)

\* a frame that keeps every row
DropDuplicatesKeepsAll(d) == d

\* df.drop_duplicates(inplace=True)
DropDuplicates(d) == [d EXCEPT !.rows = KeepFirsts(d.rows, 1)]

\* ---- the table read_csv gives
AllColumns ==
    {"Taluka", "taluka", "Village", "Bhunaksha Area", "RoR Area",
     "Owners Raw", "Communidade", "Tenanted"}

\* the records the tables are made of, each with a cell for every column
RowKinds ==
    {
      \* a row with a tenant, marked as not tenanted
      (("Taluka" :> StrValue(<<"T">>))
       @@ ("taluka" :> StrValue(<<"T">>))
       @@ ("Village" :> StrValue(<<"V">>))
       @@ ("Bhunaksha Area" :> Number(2))
       @@ ("RoR Area" :> Number(4))
       @@ ("Owners Raw" :> StrValue(<<"T", "e", "n", "a", "n", "t", "s", SP, "n", "a", "m", "e", "s", ":", "a">>))
       @@ ("Communidade" :> Bool(TRUE))
       @@ ("Tenanted" :> Bool(FALSE))),
      \* the same row, its Taluka padded
      (("Taluka" :> StrValue(<<SP, "T">>))
       @@ ("taluka" :> StrValue(<<"T">>))
       @@ ("Village" :> StrValue(<<"V">>))
       @@ ("Bhunaksha Area" :> Number(2))
       @@ ("RoR Area" :> Number(4))
       @@ ("Owners Raw" :> StrValue(<<"T", "e", "n", "a", "n", "t", "s", SP, "n", "a", "m", "e", "s", ":", "a">>))
       @@ ("Communidade" :> Bool(TRUE))
       @@ ("Tenanted" :> Bool(FALSE))),
      \* a row of missing values, marked as tenanted
      (("Taluka" :> NaN)
       @@ ("taluka" :> StrValue(<<"t">>))
       @@ ("Village" :> NaN)
       @@ ("Bhunaksha Area" :> NaN)
       @@ ("RoR Area" :> Number(2))
       @@ ("Owners Raw" :> NaN)
       @@ ("Communidade" :> NaN)
       @@ ("Tenanted" :> Bool(TRUE))),
      \* a row of free text
      (("Taluka" :> StrValue(<<"U">>))
       @@ ("taluka" :> StrValue(<<"U">>))
       @@ ("Village" :> StrValue(<<"W">>))
       @@ ("Bhunaksha Area" :> StrValue(<<"2", SP, "m">>))
       @@ ("RoR Area" :> StrValue(<<"x">>))
       @@ ("Owners Raw" :> StrValue(<<"G", "O", "V", "T", SP, "c", "o", "m", "u", "n", "i", "d", "a", "d", "e">>))
       @@ ("Communidade" :> StrValue(<<"y", "e", "s">>))
       @@ ("Tenanted" :> StrValue(<<"y", "e", "s">>))),
      \* a row with an occupant, its marks spelled in lower case
      (("Taluka" :> StrValue(<<"U">>))
       @@ ("taluka" :> StrValue(<<SP, "U">>))
       @@ ("Village" :> StrValue(<<"V">>))
       @@ ("Bhunaksha Area" :> StrValue(<<"4">>))
       @@ ("RoR Area" :> StrValue(<<"1", ".", "2", ".", "3">>))
       @@ ("Owners Raw" :> StrValue(<<"O", "c", "c", "u", "p", "a", "n", "t", "s", SP, "N", "a", "m", "e", "s", ":", "a">>))
       @@ ("Communidade" :> StrValue(<<"t", "r", "u", "e">>))
       @@ ("Tenanted" :> StrValue(<<"t", "r", "u", "e">>)))
    }

BoolTexts == { PyText.bool_true, PyText.upper_true, <<"t", "r", "u", "e">>, PyText.bool_false, <<"F", "A", "L", "S", "E">>, <<"f", "a", "l", "s", "e">> }
\* text the parser reads as a number
NumericText(t) ==
    /\ \A k \in 1..Len(t) : NumericChar(t[k])
    /\ Count(t, ".") <= 1
    /\ Count(t, ".") < Len(t)

StrCells(table, c) == { v \in Cells(table, c) : v.kind = "str" }

\* what type inference leaves in a column: numbers only when every cell
\* that is present reads as a number, bools only when every one reads as a
\* bool, and text otherwise
WellTyped(table, c) ==
    /\ HasKind(table, c, "number") =>
           ~HasKind(table, c, "str") /\ ~HasKind(table, c, "bool")
    /\ HasKind(table, c, "bool") => ~HasKind(table, c, "str")
    /\ StrCells(table, c) # {} =>
           /\ \E v \in StrCells(table, c) : ~NumericText(v.text)
           /\ \E v \in StrCells(table, c) : v.text \notin BoolTexts

Project(full, cols) == [c \in cols |-> full[c]]

\* the tables with the header cols
Tables(cols) ==
    { table \in { [i \in 1..Len(kinds) |-> Project(kinds[i], cols)] :
                    kinds \in UNION { [1..n -> RowKinds] : n \in 0..MaxRows } } :
        \A c \in cols : WellTyped(table, c) }

NoDf == [columns |-> {}, rows |-> <<>>]
NotReturned == [kind |-> "none"]

LoadInit ==
    /\ columns \in SUBSET AllColumns \ {{}}
    /\ rows \in Tables(columns)
    /\ lpc = "start"
    /\ df = NoDf
    /\ load_result = NotReturned
    /\ ReasmIdle
    /\ file_encoding \in Encodings
    /\ ExtrIdle
    /\ UrlIdle
    /\ DlIdle

LoadStep(from, to) ==
    /\ lpc = from
    /\ lpc' = to
    /\ UNCHANGED <<columns, rows>>
    /\ UNCHANGED <<reasmVars, extrVars, file_encoding, urlVars, dlVars>>

\* line 221: clean_multiline_csv returns the path of the cleaned file,
\* which it wrote as UTF-8
CleanCsv ==
    /\ file_encoding = "utf-8"
    /\ LoadStep("start", "cleaned")
    /\ UNCHANGED <<df, load_result>>

\* line 221: clean_multiline_csv raises UnicodeDecodeError at line 47,
\* outside the try of lines 223-240
CleanCsvDecodeError ==
    /\ file_encoding # "utf-8"
    /\ LoadStep("start", "raised")
    /\ UNCHANGED <<df, load_result>>

\* lines 225-229: read_csv succeeds
ReadUtf8 ==
    /\ LoadStep("cleaned", "loaded")
    /\ df' = [columns |-> columns, rows |-> rows]
    /\ UNCHANGED load_result

\* lines 231-233: read_csv (or os.remove) raises
ReadUtf8Fails ==
    /\ LoadStep("cleaned", "retry")
    /\ UNCHANGED <<df, load_result>>

\* lines 235-237
ReadLatin1 ==
    /\ LoadStep("retry", "loaded")
    /\ df' = [columns |-> columns, rows |-> rows]
    /\ UNCHANGED load_result

\* lines 238-240
ReadLatin1Fails ==
    /\ LoadStep("retry", "returned")
    /\ load_result' = [kind |-> "None"]
    /\ UNCHANGED df

\* lines 250-251
CleanTaluka ==
    /\ TalukaCol(df.columns) \in df.columns
    /\ LoadStep("loaded", "areas")
    /\ df' = [df EXCEPT !.rows = StripColumn(df.rows, TalukaCol(df.columns))]
    /\ UNCHANGED load_result

\* line 251: df['taluka'] raises KeyError
TalukaKeyError ==
    /\ TalukaCol(df.columns) \notin df.columns
    /\ LoadStep("loaded", "raised")
    /\ UNCHANGED <<df, load_result>>

\* lines 253-275
ConvertAreas ==
    /\ LoadStep("areas", "comunidade")
    /\ df' = WithAreaDiff(ConvertColumn(ConvertColumn(df, AreaCols[1]),
                                        AreaCols[2]))
    /\ UNCHANGED load_result

\* lines 277-302
FlagComunidade ==
    /\ LoadStep("comunidade", "owners")
    /\ df' = WithComunidade(df)
    /\ UNCHANGED load_result

\* lines 305-324
OwnersFromRaw ==
    /\ "Owners Raw" \in df.columns
    /\ LoadStep("owners", "government")
    /\ df' = [columns |-> df.columns \cup ParsedCols,
              rows |-> [i \in 1..Len(df.rows) |->
                          WithOwnersRaw(df.rows[i],
                                        ParseCell(df.rows[i]["Owners Raw"]))]]
    /\ UNCHANGED load_result

\* lines 325-334
OwnersFromTenanted ==
    /\ "Owners Raw" \notin df.columns
    /\ "Tenanted" \in df.columns
    /\ LoadStep("owners", "government")
    /\ df' = [columns |-> df.columns \cup ParsedCols,
              rows |-> [i \in 1..Len(df.rows) |->
                          WithParsed(df.rows[i], DefaultResult,
                                     TenantedFromColumn(df, i))]]
    /\ UNCHANGED load_result

\* lines 335-344
OwnersDefault ==
    /\ "Owners Raw" \notin df.columns
    /\ "Tenanted" \notin df.columns
    /\ LoadStep("owners", "government")
    /\ df' = [columns |-> df.columns \cup ParsedCols,
              rows |-> [i \in 1..Len(df.rows) |->
                          WithParsed(df.rows[i], DefaultResult, Bool(FALSE))]]
    /\ UNCHANGED load_result

\* lines 346-362
FlagGovernment ==
    /\ LoadStep("government", "dedup")
    /\ df' = WithGovernment(df)
    /\ UNCHANGED load_result

\* lines 364-368
ReturnDf ==
    /\ LoadStep("dedup", "returned")
    /\ df' = DropDuplicates(df)
    /\ load_result' = [kind |-> "df", columns |-> df.columns,
                       rows |-> DropDuplicates(df).rows]

LoadNext ==
    \/ CleanCsv
    \/ CleanCsvDecodeError
    \/ ReadUtf8
    \/ ReadUtf8Fails
    \/ ReadLatin1
    \/ ReadLatin1Fails
    \/ CleanTaluka
    \/ TalukaKeyError
    \/ ConvertAreas
    \/ FlagComunidade
    \/ OwnersFromRaw
    \/ OwnersFromTenanted
    \/ OwnersDefault
    \/ FlagGovernment
    \/ ReturnDf

LoadSpec == LoadInit /\ [][LoadNext]_vars

(***************************************************************************)
(* Properties of load_and_validate_data                                    *)
(***************************************************************************)
LoadReturnedDf == lpc = "returned" /\ load_result.kind = "df"

TenantedByCount(row) ==
    row["is_tenanted"] = Bool(row["tenant_count"].n > 0)

\* the file carries 'Tenanted' and no 'Owners Raw'
OnlyTenanted == "Tenanted" \in columns /\ "Owners Raw" \notin columns

\* C10, as stated: in every returned row is_tenanted equals
\* (tenant_count > 0), whichever source columns the file carries.
C10_TenantedIffTenantCount ==
    LoadReturnedDf =>
        \A i \in 1..Len(load_result.rows) :
            TenantedByCount(load_result.rows[i])

\* C10, amended: in every returned row is_tenanted equals
\* (tenant_count > 0) when the file carries 'Owners Raw' or carries neither
\* source column; when it carries 'Tenanted' and no 'Owners Raw',
\* tenant_count is 0 and is_tenanted tells whether the row's Tenanted
\* value, as upper-cased text, is 'TRUE'.
C10_TenantedFollowsItsSource ==
    LoadReturnedDf =>
        \A i \in 1..Len(load_result.rows) :
            IF OnlyTenanted
            THEN /\ load_result.rows[i]["tenant_count"] = Number(0)
                 /\ load_result.rows[i]["is_tenanted"] =
                        Bool(Upper(CellStr(load_result.rows, i, "Tenanted"))
                             = PyText.upper_true)
            ELSE TenantedByCount(load_result.rows[i])

\* a row marked as not tenanted whose raw text names a tenant is returned
\* as tenanted
C10_Witness ==
    /\ LoadReturnedDf
    /\ {"Owners Raw", "Tenanted"} \subseteq columns
    /\ \E i \in 1..Len(load_result.rows) :
           /\ load_result.rows[i]["Tenanted"] = Bool(FALSE)
           /\ load_result.rows[i]["tenant_count"] = Number(1)
           /\ load_result.rows[i]["is_tenanted"] = Bool(TRUE)

\* the returned row j is the input record i: it keeps the record's cells,
\* the taluka column holding the stripped text
IsRowOf(j, i) ==
    \A c \in columns :
        load_result.rows[j][c] =
            IF c = TalukaCol(columns)
            THEN StrValue(Strip(CellStr(rows, i, c)))
            ELSE rows[i][c]

RowsOf(i) == { j \in 1..Len(load_result.rows) : IsRowOf(j, i) }
FirstRecordOf(j) == Min({ i \in 1..Len(rows) : IsRowOf(j, i) })

RawText(v) == IF v.kind = "str" THEN v.text ELSE <<>>

\* the word occurs in t at index p, letters compared without case
OccursAt(t, p, word) ==
    /\ p + Len(word) - 1 <= Len(t)
    /\ \A k \in 1..Len(word) : LowerCh(t[p + k - 1]) = LowerCh(word[k])

Mentions(t, words) ==
    \E word \in words : \E p \in 1..Len(t) : OccursAt(t, p, word)

\* the value of a cell is TRUE: the bool, or the text in any letter case
IsTrueValue(v) ==
    \/ v.kind = "bool" /\ v.b
    \/ v.kind = "str" /\ Len(v.text) = 4 /\ OccursAt(v.text, 1, <<"t", "r", "u", "e">>)

\* C12: with an 'Owners Raw' column a returned row is flagged is_comunidade
\* (is_government) exactly when its raw text holds, in any letter case, a
\* listed Comunidade spelling (government keyword), whatever other columns
\* exist; without it is_government is false and is_comunidade tells whether
\* the 'Communidade' column, if there is one, holds TRUE; with neither
\* source both flags are false.
C12_FlagsFollowTheirSource ==
    LoadReturnedDf =>
        \A j \in 1..Len(load_result.rows) :
            /\ load_result.rows[j]["is_comunidade"] =
                   Bool(IF "Owners Raw" \in columns
                        THEN Mentions(RawText(load_result.rows[j]["Owners Raw"]),
                                      comunidade_variations)
                        ELSE IF "Communidade" \in columns
                        THEN IsTrueValue(load_result.rows[j]["Communidade"])
                        ELSE FALSE)
            /\ load_result.rows[j]["is_government"] =
                   Bool(IF "Owners Raw" \in columns
                        THEN Mentions(RawText(load_result.rows[j]["Owners Raw"]),
                                      government_keywords)
                        ELSE FALSE)

\* a row whose 'Communidade' cell is not TRUE and whose raw text names a
\* comunidade and a government body, in another letter case than listed,
\* has both flags
C12_Witness ==
    /\ LoadReturnedDf
    /\ {"Owners Raw", "Communidade"} \subseteq columns
    /\ \E j \in 1..Len(load_result.rows) :
           /\ ~IsTrueValue(load_result.rows[j]["Communidade"])
           /\ load_result.rows[j]["is_comunidade"] = Bool(TRUE)
           /\ load_result.rows[j]["is_government"] = Bool(TRUE)

\* C13: whichever of the expected columns a file that parses lacks, the
\* load does not raise, and in the returned rows what depends on an absent column has
\* its default: the area difference is 0 without both area columns, and
\* without 'Owners Raw' the counts are 0, the name lists '[]', the remarks
\* empty and is_government false.
C13_MissingColumnNotFatal ==
    /\ file_encoding = "utf-8" => lpc # "raised"
    /\ LoadReturnedDf =>
           \A j \in 1..Len(load_result.rows) :
               /\ ~({"Bhunaksha Area", "RoR Area"} \subseteq columns) =>
                      load_result.rows[j]["ror_bhunaksha_area_diff_pct"] = Number(0)
               /\ "Owners Raw" \notin columns =>
                      /\ load_result.rows[j]["occupant_count"] = Number(0)
                      /\ load_result.rows[j]["tenant_count"] = Number(0)
                      /\ load_result.rows[j]["occupant_names"] = StrValue(PyText.empty_list)
                      /\ load_result.rows[j]["tenant_names"] = StrValue(PyText.empty_list)
                      /\ load_result.rows[j]["remarks"] = StrValue(<<>>)
                      /\ load_result.rows[j]["is_government"] = Bool(FALSE)

\* C14: a file that is not valid UTF-8 but decodes as Latin-1 is loaded
\* through the Latin-1 fallback: its load never ends in an uncaught
\* exception, and it ends in the failure outcome (None) only after the
\* read has failed under UTF-8 and under Latin-1.
C14_Latin1FileIsLoaded ==
    file_encoding = "latin-1" =>
        /\ lpc # "raised"
        /\ lpc = "returned" => load_result.kind \in {"df", "None"}

(***************************************************************************)
(* get_valid_url of data/lgd-code-csv-lookup/1_filter_lgd_by_state.py:     *)
(* the search for the most recent dated archive.  A date is a record of    *)
(* year, month and day; the server's answer to each HEAD request is an     *)
(* input, chosen when the request is made.                                 *)
(***************************************************************************)

\* range(7)
MaxProbes == 7

IsLeap(y) == (y % 4 = 0 /\ y % 100 # 0) \/ y % 400 = 0

DaysIn(y, m) ==
    IF m = 2 THEN (IF IsLeap(y) THEN 29 ELSE 28)
    ELSE IF m \in {4, 6, 9, 11} THEN 30 ELSE 31

\* line 67: base_date - pd.Timedelta(days=1), on the calendar date
PrevDay(date) ==
    IF date.d > 1 THEN [date EXCEPT !.d = @ - 1]
    ELSE IF date.m > 1
         THEN [y |-> date.y, m |-> date.m - 1, d |-> DaysIn(date.y, date.m - 1)]
         ELSE [y |-> date.y - 1, m |-> 12, d |-> 31]

\* strftime('%b'): the abbreviated month names
MonthAbbr ==
    <<<<"J", "a", "n">>, <<"F", "e", "b">>, <<"M", "a", "r">>,
      <<"A", "p", "r">>, <<"M", "a", "y">>, <<"J", "u", "n">>,
      <<"J", "u", "l">>, <<"A", "u", "g">>, <<"S", "e", "p">>,
      <<"O", "c", "t">>, <<"N", "o", "v">>, <<"D", "e", "c">>>>

\* line 56: strftime('%d%b%Y'), the day zero-padded to two digits
StrfTime(date) ==
    (IF date.d < 10 THEN <<"0">> ELSE <<>>) \o IntStr(date.d)
        \o MonthAbbr[date.m] \o IntStr(date.y)

\* str.capitalize()
Capitalize(s) ==
    [k \in 1..Len(s) |-> IF k = 1 THEN UpperCh(s[k]) ELSE LowerCh(s[k])]

\* lines 56-57
CurrentDate(date) ==
    SubSeq(StrfTime(date), 1, 2)
        \o Capitalize(SubSeq(StrfTime(date), 3, 5))
        \o SubSeq(StrfTime(date), 6, Len(StrfTime(date)))

\* line 58: the f-string; the fixed prefix is kept as one piece
UrlOf(current_date) ==
    <<"https://storage.googleapis.com/lgd_data_archive/">>
        \o current_date \o <<".", "z", "i", "p">>

\* the dates get_valid_url is called with: they make the seven days cross
\* a month end, the end of February of a leap and of a common year, and a
\* year end
BaseDates ==
    {[y |-> 2024, m |-> 3, d |-> 2], [y |-> 2023, m |-> 3, d |-> 4],
     [y |-> 2024, m |-> 1, d |-> 3], [y |-> 2024, m |-> 5, d |-> 1],
     [y |-> 2026, m |-> 11, d |-> 15]}

\* status codes other than 200 that a HEAD request is answered with
OtherStatuses == {301, 404}

\* requests.head raised requests.RequestException: there is no response
NoResponse == 0

NoUrlResult == [kind |-> "none"]

UrlInit ==
    /\ start_date \in BaseDates
    /\ base_date = start_date
    /\ attempt = 0
    /\ probes = <<>>
    /\ upc = "loop"
    /\ url_result = NoUrlResult
    /\ ReasmIdle
    /\ file_encoding = "utf-8"
    /\ ExtrIdle
    /\ LoadIdle
    /\ DlIdle

\* line 61: the request for the URL of the current base_date
HeadRequest(status) ==
    /\ upc = "loop"
    /\ attempt < MaxProbes
    /\ probes' = Append(probes, [url |-> UrlOf(CurrentDate(base_date)),
                                 status |-> status])
    /\ UNCHANGED <<start_date, reasmVars, extrVars, loadVars, file_encoding, dlVars>>

\* line 67 and the next turn of the loop
NextDay ==
    /\ base_date' = PrevDay(base_date)
    /\ attempt' = attempt + 1
    /\ UNCHANGED <<upc, url_result>>

\* lines 62-63: status 200, return url, current_date
ProbeHit ==
    /\ HeadRequest(200)
    /\ url_result' = [kind |-> "found",
                      url |-> UrlOf(CurrentDate(base_date)),
                      date_string |-> CurrentDate(base_date)]
    /\ upc' = "returned"
    /\ UNCHANGED <<base_date, attempt>>

\* the mutation of ProbeMiss: the date is not stepped back
ProbeMissSameDate ==
    /\ \E status \in OtherStatuses : HeadRequest(status)
    /\ attempt' = attempt + 1
    /\ UNCHANGED <<base_date, upc, url_result>>

\* line 62 false: another status; line 67
ProbeMiss ==
    /\ \E status \in OtherStatuses : HeadRequest(status)
    /\ NextDay

\* lines 64-65: the exception is swallowed; line 67
ProbeRaises ==
    /\ HeadRequest(NoResponse)
    /\ NextDay

\* line 69: the loop is exhausted
ReturnNone ==
    /\ upc = "loop"
    /\ attempt = MaxProbes
    /\ url_result' = [kind |-> "None"]
    /\ upc' = "returned"
    /\ UNCHANGED <<start_date, base_date, attempt, probes>>
    /\ UNCHANGED <<reasmVars, extrVars, loadVars, file_encoding, dlVars>>

UrlNext == ProbeHit \/ ProbeMiss \/ ProbeRaises \/ ReturnNone

UrlSpec == UrlInit /\ [][UrlNext]_vars

\* the date n days before a date, for n less than a month: the day of the
\* month counted down, into the month before when it runs out
DaysBack(date, n) ==
    IF n < date.d THEN [date EXCEPT !.d = @ - n]
    ELSE IF date.m = 1
         THEN [y |-> date.y - 1, m |-> 12, d |-> 31 + date.d - n]
         ELSE [y |-> date.y, m |-> date.m - 1,
               d |-> DaysIn(date.y, date.m - 1) + date.d - n]

\* the dd + Mon + yyyy text of a date, written out digit by digit
DateText(date) ==
    <<DigitChars[(date.d \div 10) + 1], DigitChars[(date.d % 10) + 1]>>
        \o MonthAbbr[date.m]
        \o <<DigitChars[(date.y \div 1000) + 1], DigitChars[((date.y \div 100) % 10) + 1],
             DigitChars[((date.y \div 10) % 10) + 1], DigitChars[(date.y % 10) + 1]>>

\* C15: get_valid_url makes at most 7 probes; the k-th probe is for the
\* archive of the day k-1 days before base_date; only the last probe can
\* be a hit (status 200), and then the function has returned that probe's
\* URL and date string; a probe that raised or got another status is
\* followed by the next day's probe; the function returns (None, None)
\* exactly when 7 probes were made and all of them missed.
C15_ProbesInOrderUntilFirstHit ==
    /\ Len(probes) <= MaxProbes
    /\ \A k \in 1..Len(probes) :
           /\ probes[k].url = UrlOf(DateText(DaysBack(start_date, k - 1)))
           /\ k < Len(probes) => probes[k].status # 200
    /\ (probes # <<>> /\ probes[Len(probes)].status = 200) =>
           /\ upc = "returned"
           /\ url_result = [kind |-> "found",
                            url |-> probes[Len(probes)].url,
                            date_string |-> DateText(DaysBack(start_date, Len(probes) - 1))]
    /\ upc = "loop" => attempt = Len(probes)
    /\ upc = "returned" =>
           \/ probes # <<>> /\ probes[Len(probes)].status = 200
           \/ /\ Len(probes) = MaxProbes
              /\ \A k \in 1..MaxProbes : probes[k].status # 200
              /\ url_result = [kind |-> "None"]

\* a hit on the fourth day back, after a probe that raised and one that was
\* refused, the dates crossing the end of February of a leap year
C15_Witness ==
    /\ upc = "returned"
    /\ url_result.kind = "found"
    /\ Len(probes) = 4
    /\ start_date = [y |-> 2024, m |-> 3, d |-> 2]
    /\ url_result.date_string = <<"2", "8", "F", "e", "b", "2", "0", "2", "4">>
    /\ \E k \in 1..3 : probes[k].status = NoResponse
    /\ \E k \in 1..3 : probes[k].status = 404

(***************************************************************************)
(* parse_owners_raw_field on texts made of the section labels and rules    *)
(***************************************************************************)

\* what these texts are made of: the three labels, rules of five dashes,
\* of two more dashes (seven together) and of five equals signs, a name
\* and the space
SectionSegments ==
    { <<"O", "c", "c", "u", "p", "a", "n", "t", "s", " ", "N", "a", "m", "e", "s", ":">>,
      <<"T", "e", "n", "a", "n", "t", "s", " ", "n", "a", "m", "e", "s", ":">>,
      <<"T", "o", "t", "a", "l", " ", "A", "r", "e", "a", ":">>,
      <<"-", "-", "-", "-", "-">>, <<"-", "-">>, <<"=", "=", "=", "=", "=">>,
      <<"a">>, <<SP>> }

SectionTexts ==
    { Concat(segs) : segs \in UNION { [1..n -> SectionSegments] : n \in 0..MaxSegs } }

SectionInit ==
    /\ owners_raw_text \in { StrValue(t) : t \in SectionTexts } \cup NonStringValues
    /\ xpc = "start"
    /\ result = NoResult
    /\ ReasmIdle
    /\ file_encoding = "utf-8"
    /\ LoadIdle
    /\ UrlIdle
    /\ DlIdle

SectionSpec == SectionInit /\ [][ExtractNext]_vars

\* a section boundary as documented: the tenants label, the total-area
\* label, a rule of five or more dash or equals characters, or the end
DocumentedBoundary(s, e) ==
    \/ TenLabel(s, e) # 0
    \/ TotLabel(s, e) # 0
    \/ SkipClass(s, e, RuleChars) >= e + 5
    \/ AtEnd(s, e)

\* the text after the colon at index c - 1, up to the nearest boundary
DocumentedSection(s, p, c) ==
    [found |-> TRUE, start |-> p, from |-> c,
     to |-> Min({e \in c..(Len(s) + 1) : DocumentedBoundary(s, e)})]

\* the Occupants section as documented, from the first occupants label
DocumentedOccupants(s) ==
    IF \E p \in 1..Len(s) : OccLabel(s, p) # 0
    THEN DocumentedSection(s, Min({p \in 1..Len(s) : OccLabel(s, p) # 0}),
             OccLabel(s, Min({p \in 1..Len(s) : OccLabel(s, p) # 0})))
    ELSE NoMatch

\* C16: the occupant names are read from the text between the 'Occupants
\* Names:' label and the nearest following 'Tenants names:', 'Total
\* Area:', rule of 5 or more dash or equals characters, or end of text;
\* also when that text is empty and when the rule is of equals signs or of
\* 5 or 6 characters.
C16_OccupantsSectionIsIsolated ==
    (Returned /\ IsStr(owners_raw_text)) =>
        result.occupant_names =
            NamesOfMatch("occupants", Strip(owners_raw_text.text),
                         DocumentedOccupants(Strip(owners_raw_text.text)))

\* one of the three labels (case-insensitively) starts somewhere in a name
ContainsLabel(name) ==
    \E p \in 1..Len(name) :
        OccLabel(name, p) # 0 \/ TenLabel(name, p) # 0 \/ TotLabel(name, p) # 0

\* C17: in whatever order the labels 'Occupants Names:', 'Tenants names:'
\* and 'Total Area:' appear, no extracted occupant or tenant name contains
\* one of these labels: each section has ended at the nearest following
\* label; an absent label gives an empty list.
C17_NoNameContainsALabel ==
    (Returned /\ IsStr(owners_raw_text)) =>
        /\ \A k \in 1..Len(result.occupant_names) :
               ~ContainsLabel(result.occupant_names[k])
        /\ \A k \in 1..Len(result.tenant_names) :
               ~ContainsLabel(result.tenant_names[k])
        /\ (\A p \in 1..Len(owners_raw_text.text) : OccLabel(owners_raw_text.text, p) = 0)
               => result.occupant_names = <<>>
        /\ (\A p \in 1..Len(owners_raw_text.text) : TenLabel(owners_raw_text.text, p) = 0)
               => result.tenant_names = <<>>

(***************************************************************************)
(* parse_owners_raw_field on name lists                                    *)
(***************************************************************************)

\* Occupants sections, each with the names it is documented to give: a
\* numbered list with a symbol prefix and a trailing comma, lists with
\* 'and', commas and a semicolon (one name: the section is not split),
\* symbol prefixes and trailing commas, a placeholder, a numbered list
\* with a placeholder and a repeated name, and no section
OccupantCases ==
    { [text |->
         <<"O", "c", "c", "u", "p", "a", "n", "t", "s", SP, "N", "a", "m",
         "e", "s", ":", SP, "1", ")", ".", SP, "J", "o", "s", "e", SP, "F",
         "e", "r", "n", "a", "n", "d", "e", "s", SP, "2", ")", ".", SP, "%",
         "M", "a", "r", "i", "a", SP, "S", "o", "u", "z", "a", ",", SP>>,
       names |->
         <<<<"J", "o", "s", "e", SP, "F", "e", "r", "n", "a", "n", "d", "e",
         "s">>, <<"M", "a", "r", "i", "a", SP, "S", "o", "u", "z", "a">>>>],
      [text |->
         <<"O", "c", "c", "u", "p", "a", "n", "t", "s", SP, "N", "a", "m",
         "e", "s", ":", SP, "R", "a", "v", "i", SP, "N", "a", "i", "r", SP,
         "a", "n", "d", SP, "S", "u", "r", "e", "s", "h", SP, "K", "u", "m",
         "a", "r", SP>>,
       names |->
         <<<<"R", "a", "v", "i", SP, "N", "a", "i", "r", SP, "a", "n", "d",
         SP, "S", "u", "r", "e", "s", "h", SP, "K", "u", "m", "a", "r">>>>],
      [text |->
         <<"O", "c", "c", "u", "p", "a", "n", "t", "s", SP, "N", "a", "m",
         "e", "s", ":", SP, "J", "o", "s", "e", SP, "F", "e", "r", "n", "a",
         "n", "d", "e", "s", ",", SP, "R", "a", "v", "i", SP, "N", "a", "i",
         "r", ";", SP, "S", "u", "r", "e", "s", "h", SP, "K", "u", "m", "a",
         "r", SP>>,
       names |->
         <<<<"J", "o", "s", "e", SP, "F", "e", "r", "n", "a", "n", "d", "e",
         "s", ",", SP, "R", "a", "v", "i", SP, "N", "a", "i", "r", ";", SP,
         "S", "u", "r", "e", "s", "h", SP, "K", "u", "m", "a", "r">>>>],
      [text |->
         <<"O", "c", "c", "u", "p", "a", "n", "t", "s", SP, "N", "a", "m",
         "e", "s", ":", SP, "#", "&", "J", "o", "s", "e", SP, "F", "e", "r",
         "n", "a", "n", "d", "e", "s", SP, ",", ",", SP>>,
       names |->
         <<<<"J", "o", "s", "e", SP, "F", "e", "r", "n", "a", "n", "d", "e",
         "s">>>>],
      [text |->
         <<"O", "c", "c", "u", "p", "a", "n", "t", "s", SP, "N", "a", "m",
         "e", "s", ":", SP, "n", "i", "l", SP>>,
       names |->
         <<>>],
      [text |->
         <<"O", "c", "c", "u", "p", "a", "n", "t", "s", SP, "N", "a", "m",
         "e", "s", ":", SP, "1", ")", ".", SP, "R", "a", "v", "i", SP, "N",
         "a", "i", "r", SP, "2", ")", ".", SP, "n", "i", "l", SP, "3", ")",
         ".", SP, "R", "a", "v", "i", SP, "N", "a", "i", "r", SP>>,
       names |->
         <<<<"R", "a", "v", "i", SP, "N", "a", "i", "r">>>>],
      [text |->
         <<>>,
       names |->
         <<>>] }

\* Tenants sections, each with the names it is documented to give: a
\* placeholder, a list with 'and', a list with commas and a semicolon, a
\* numbered list (not split on 'and'), a name that contains the letters
\* 'and', symbol prefixes, and no section
TenantCases ==
    { [text |->
         <<"T", "e", "n", "a", "n", "t", "s", SP, "n", "a", "m", "e", "s",
         ":", SP, "n", "i", "l", SP>>,
       names |->
         <<>>],
      [text |->
         <<"T", "e", "n", "a", "n", "t", "s", SP, "n", "a", "m", "e", "s",
         ":", SP, "R", "a", "v", "i", SP, "N", "a", "i", "r", SP, "a", "n",
         "d", SP, "S", "u", "r", "e", "s", "h", SP, "K", "u", "m", "a",
         "r">>,
       names |->
         <<<<"R", "a", "v", "i", SP, "N", "a", "i", "r">>, <<"S", "u", "r",
         "e", "s", "h", SP, "K", "u", "m", "a", "r">>>>],
      [text |->
         <<"T", "e", "n", "a", "n", "t", "s", SP, "n", "a", "m", "e", "s",
         ":", SP, "R", "a", "v", "i", SP, "N", "a", "i", "r", ",", SP, "S",
         "u", "r", "e", "s", "h", SP, "K", "u", "m", "a", "r", ";", SP, "J",
         "o", "s", "e", SP, "F", "e", "r", "n", "a", "n", "d", "e", "s",
         SP>>,
       names |->
         <<<<"R", "a", "v", "i", SP, "N", "a", "i", "r">>, <<"S", "u", "r",
         "e", "s", "h", SP, "K", "u", "m", "a", "r">>, <<"J", "o", "s", "e",
         SP, "F", "e", "r", "n", "a", "n", "d", "e", "s">>>>],
      [text |->
         <<"T", "e", "n", "a", "n", "t", "s", SP, "n", "a", "m", "e", "s",
         ":", SP, "1", ")", ".", SP, "R", "a", "v", "i", SP, "N", "a", "i",
         "r", SP, "a", "n", "d", SP, "S", "u", "r", "e", "s", "h", SP, "K",
         "u", "m", "a", "r", SP, "2", ")", ".", SP, "$", "J", "o", "s", "e",
         SP, "F", "e", "r", "n", "a", "n", "d", "e", "s", ",", SP>>,
       names |->
         <<<<"R", "a", "v", "i", SP, "N", "a", "i", "r", SP, "a", "n", "d",
         SP, "S", "u", "r", "e", "s", "h", SP, "K", "u", "m", "a", "r">>,
         <<"J", "o", "s", "e", SP, "F", "e", "r", "n", "a", "n", "d", "e",
         "s">>>>],
      [text |->
         <<"T", "e", "n", "a", "n", "t", "s", SP, "n", "a", "m", "e", "s",
         ":", SP, "A", "n", "a", "n", "d", SP, "R", "a", "o">>,
       names |->
         <<<<"A", "n", "a", "n", "d", SP, "R", "a", "o">>>>],
      [text |->
         <<"T", "e", "n", "a", "n", "t", "s", SP, "n", "a", "m", "e", "s",
         ":", SP, "@", "R", "a", "v", "i", SP, "N", "a", "i", "r", SP, ",",
         SP, "(", "S", "u", "r", "e", "s", "h", SP, "K", "u", "m", "a",
         "r">>,
       names |->
         <<<<"R", "a", "v", "i", SP, "N", "a", "i", "r">>, <<"S", "u", "r",
         "e", "s", "h", SP, "K", "u", "m", "a", "r">>>>],
      [text |->
         <<>>,
       names |->
         <<>>] }

\* what follows the sections: nothing, or the total-area field
TailCases ==
    { <<>>,
      <<"T", "o", "t", "a", "l", SP, "A", "r", "e", "a", ":", SP, "5", "0",
      "0", SP, "s", "q", SP, "m">> }

NameListTexts ==
    { o.text \o t.text \o tail :
          o \in OccupantCases, t \in TenantCases, tail \in TailCases }

NameListInit ==
    /\ owners_raw_text \in { StrValue(t) : t \in NameListTexts } \cup NonStringValues
    /\ xpc = "start"
    /\ result = NoResult
    /\ ReasmIdle
    /\ file_encoding = "utf-8"
    /\ LoadIdle
    /\ UrlIdle
    /\ DlIdle

NameListSpec == NameListInit /\ [][ExtractNext]_vars

Scenario1 ==
    <<"O", "c", "c", "u", "p", "a", "n", "t", "s", SP, "N", "a", "m", "e",
    "s", ":", SP, "1", ")", ".", SP, "J", "o", "s", "e", SP, "F", "e", "r",
    "n", "a", "n", "d", "e", "s", SP, "2", ")", ".", SP, "%", "M", "a", "r",
    "i", "a", SP, "S", "o", "u", "z", "a", ",", SP, "T", "e", "n", "a", "n",
    "t", "s", SP, "n", "a", "m", "e", "s", ":", SP, "n", "i", "l", SP, "T",
    "o", "t", "a", "l", SP, "A", "r", "e", "a", ":", SP, "5", "0", "0", SP,
    "s", "q", SP, "m">>
Scenario2 ==
    <<"T", "e", "n", "a", "n", "t", "s", SP, "n", "a", "m", "e", "s", ":",
    SP, "R", "a", "v", "i", SP, "N", "a", "i", "r", SP, "a", "n", "d", SP,
    "S", "u", "r", "e", "s", "h", SP, "K", "u", "m", "a", "r">>

FieldLabelAt(s, p) ==
    \/ Labelled(s, p, Labels.taluka_name) # 0
    \/ Labelled(s, p, Labels.village_name) # 0
    \/ Labelled(s, p, Labels.subdiv_no) # 0
    \/ TotLabel(s, p) # 0
    \/ OccLabel(s, p) # 0
    \/ TenLabel(s, p) # 0

\* C19: the remarks of a string input hold no recognized field label (so
\* no labelled span) and no rule of 5 or more dash or equals characters,
\* in whatever order the labels appear; they are trimmed, have no newline
\* and no two whitespace characters in a row.
C19_RemarksAreFreeText ==
    (Returned /\ IsStr(owners_raw_text)) =>
        /\ \A p \in 1..Len(result.remarks) :
               /\ ~FieldLabelAt(result.remarks, p)
               /\ SkipClass(result.remarks, p, RuleChars) < p + 5
               /\ result.remarks[p] # NL
               /\ (p > 1 /\ result.remarks[p] \in Whitespace)
                      => result.remarks[p - 1] \notin Whitespace
        /\ Strip(result.remarks) = result.remarks

RECURSIVE QuotesSoFar(_)
\* the number of double quotes in the first k lines
QuotesSoFar(k) ==
    IF k = 0 THEN 0 ELSE QuotesSoFar(k - 1) + NumQuotes(lines[k])

C20_Inv ==
    /\ in_multiline_field <=> QuotesSoFar(idx) % 2 = 1
    /\ multiline_content # <<>> <=> in_multiline_field

C20_Step ==
    in_multiline_field' # in_multiline_field =>
        /\ HasLine
        /\ OddQuotes(Line)

\* C20: after any prefix of the lines, the inside-quoted-field flag is
\* true exactly when the number of double quotes in the lines processed so
\* far is odd, the accumulator is non-empty exactly when the flag is true
\* (empty at the start and after every close), and the flag changes only
\* on a line with an odd quote count.
C20_FlagIsQuoteParity == []C20_Inv /\ [][C20_Step]_vars

\* a field was opened, closed and opened again: three quotes so far
C20_Witness ==
    /\ pc = "loop"
    /\ idx = 3
    /\ QuotesSoFar(1) = 1
    /\ QuotesSoFar(2) = 2
    /\ QuotesSoFar(3) = 3
    /\ in_multiline_field
    /\ Len(multiline_content) = 1

(***************************************************************************)
(* download_and_process_data of 1_filter_lgd_by_state.py: the choice of    *)
(* the archive (lines 88-118).  The search of get_valid_url is part of     *)
(* it; unzipping and filtering (lines 122-176) are one step.               *)
(***************************************************************************)

\* the characters of the file names, in code point order
CodePoints ==
    <<".", "0", "1", "2", "3", "4", "5", "6", "7", "8", "9",
      "A", "B", "C", "D", "E", "F", "G", "H", "I", "J", "K", "L", "M",
      "N", "O", "P", "Q", "R", "S", "T", "U", "V", "W", "X", "Y", "Z",
      "a", "b", "c", "d", "e", "f", "g", "h", "i", "j", "k", "l", "m",
      "n", "o", "p", "q", "r", "s", "t", "u", "v", "w", "x", "y", "z">>
Ord(c) == CHOOSE k \in 1..Len(CodePoints) : CodePoints[k] = c

RECURSIVE StrLess(_, _)
\* a < b for two str: the first differing character decides, a proper
\* prefix is smaller
StrLess(a, b) ==
    IF b = <<>> THEN FALSE
    ELSE IF a = <<>> THEN TRUE
    ELSE IF a[1] # b[1] THEN Ord(a[1]) < Ord(b[1])
    ELSE StrLess(Tail(a), Tail(b))

DotZip == <<".", "z", "i", "p">>

\* f.endswith('.zip')
EndsWithZip(f) ==
    Len(f) >= Len(DotZip) /\ SubSeq(f, Len(f) - Len(DotZip) + 1, Len(f)) = DotZip

\* line 94
ExistingFiles(dir) == {f \in dir : EndsWithZip(f)}

\* lines 97-98: existing_files.sort(reverse=True); existing_files[0]
FirstOfReverseSort(files) ==
    CHOOSE f \in files : \A g \in files : ~StrLess(f, g)

\* os.path.join(download_dir, f'{date_string}.zip')
ZipPath(ds) == <<"downloads/">> \o ds \o DotZip

\* datetime.now()
Today == [y |-> 2024, m |-> 2, d |-> 12]

\* the dates of the archives downloads/ may hold from earlier runs: two
\* before the seven days searched, in different months, and one within
StoredDates ==
    {[y |-> 2024, m |-> 1, d |-> 31], [y |-> 2024, m |-> 2, d |-> 1],
     [y |-> 2024, m |-> 2, d |-> 10]}

\* the files downloads/ may hold: those archives and a file that is no zip
StoredFiles ==
    { CurrentDate(date) \o DotZip : date \in StoredDates }
        \cup { <<"n", "o", "t", "e", "s", ".", "t", "x", "t">> }

EmptyList == [kind |-> "list", items |-> "none", archive |-> <<>>]

\* lines 76-89: the directories exist, get_valid_url(datetime.now()) starts
DownloadInit ==
    /\ download_dir \in SUBSET StoredFiles
    /\ dpc = "search"
    /\ date_string = <<>>
    /\ zip_path = <<>>
    /\ dl_result = [kind |-> "none"]
    /\ start_date = Today
    /\ base_date = start_date
    /\ attempt = 0
    /\ probes = <<>>
    /\ upc = "loop"
    /\ url_result = NoUrlResult
    /\ ReasmIdle
    /\ file_encoding = "utf-8"
    /\ ExtrIdle
    /\ LoadIdle

\* get_valid_url has returned and download_and_process_data goes on
DownloadStep(found, to) ==
    /\ dpc = "search"
    /\ upc = "returned"
    /\ url_result.kind = (IF found THEN "found" ELSE "None")
    /\ dpc' = to
    /\ UNCHANGED <<reasmVars, extrVars, loadVars, file_encoding, urlVars>>

\* lines 91-100: no URL, downloads/ holds a zip file
UseExisting ==
    /\ ExistingFiles(download_dir) # {}
    /\ DownloadStep(FALSE, "process")
    /\ date_string' =
           Replace(FirstOfReverseSort(ExistingFiles(download_dir)), DotZip, <<>>)
    /\ zip_path' = ZipPath(date_string')
    /\ UNCHANGED <<download_dir, dl_result>>

\* lines 91-95 and 101-103: no URL, no zip file: return []
NoExisting ==
    /\ ExistingFiles(download_dir) = {}
    /\ DownloadStep(FALSE, "returned")
    /\ dl_result' = EmptyList
    /\ UNCHANGED <<download_dir, date_string, zip_path>>

\* lines 104-108: the archive of the URL found is already in downloads/
AlreadyDownloaded ==
    /\ url_result.kind = "found"
    /\ url_result.date_string \o DotZip \in download_dir
    /\ DownloadStep(TRUE, "process")
    /\ date_string' = url_result.date_string
    /\ zip_path' = ZipPath(date_string')
    /\ UNCHANGED <<download_dir, dl_result>>

\* lines 109-118: the archive is fetched and saved
Download ==
    /\ url_result.kind = "found"
    /\ url_result.date_string \o DotZip \notin download_dir
    /\ DownloadStep(TRUE, "process")
    /\ date_string' = url_result.date_string
    /\ zip_path' = ZipPath(date_string')
    /\ download_dir' = download_dir \cup {date_string' \o DotZip}
    /\ UNCHANGED dl_result

\* lines 111-121: requests.get or raise_for_status raises: return []
DownloadFails ==
    /\ url_result.kind = "found"
    /\ url_result.date_string \o DotZip \notin download_dir
    /\ DownloadStep(TRUE, "returned")
    /\ date_string' = url_result.date_string
    /\ zip_path' = ZipPath(date_string')
    /\ dl_result' = EmptyList
    /\ UNCHANGED download_dir

\* lines 123-196: the archive at zip_path is unzipped and filtered; the
\* list returned holds DataFrames or nothing
Process ==
    /\ dpc = "process"
    /\ dpc' = "returned"
    /\ \E items \in {"some", "none"} :
           dl_result' = [kind |-> "list", items |-> items, archive |-> date_string]
    /\ UNCHANGED <<download_dir, date_string, zip_path>>
    /\ UNCHANGED <<reasmVars, extrVars, loadVars, file_encoding, urlVars>>

DownloadNext ==
    \/ ProbeHit \/ ProbeMiss \/ ProbeRaises \/ ReturnNone
    \/ UseExisting \/ NoExisting \/ AlreadyDownloaded \/ Download
    \/ DownloadFails \/ Process

DownloadSpec == DownloadInit /\ [][DownloadNext]_vars

\* the dates whose archive '<ddMonYYYY>.zip' is in downloads/
ArchivedDates == {date \in StoredDates : DateText(date) \o DotZip \in download_dir}

\* date a is not after date b
NotAfter(a, b) ==
    \/ a.y < b.y
    \/ a.y = b.y /\ a.m < b.m
    \/ a.y = b.y /\ a.m = b.m /\ a.d <= b.d

\* C21: when no valid URL was found in the last 7 days and downloads/
\* holds dated zip files, the archive used is the one with the latest
\* date; when downloads/ holds no zip file the function returns an empty
\* list and no archive is chosen or processed.
C21_FallbackUsesLatestArchive ==
    (url_result.kind = "None" /\ dpc \in {"process", "returned"}) =>
        IF ArchivedDates # {}
        THEN \E date \in ArchivedDates :
                 /\ \A other \in ArchivedDates : NotAfter(other, date)
                 /\ date_string = DateText(date)
                 /\ zip_path = ZipPath(DateText(date))
        ELSE /\ dpc = "returned"
             /\ dl_result = EmptyList
             /\ zip_path = <<>>

====
